---------------------------- MODULE Spec2Model ----------------------------
(***************************************************************************)
(* A model of the enhanced calculator (app/calculator.py and the modules   *)
(* it uses): the operation strategies, the Calculation record, the         *)
(* Calculator session with its history list, the undo/redo stacks of       *)
(* mementos, the observers and the CSV history file.                       *)
(*                                                                         *)
(* Python lists are objects: the model keeps a heap of list objects and    *)
(* the session holds references into it, so that sharing of a list between *)
(* the live history and a memento is something the model can express.      *)
(* Timestamps are left out: Calculation.__eq__ ignores them and no         *)
(* operation reads them.                                                   *)
(***************************************************************************)
EXTENDS Integers, Sequences, FiniteSets, TLC

(***************************************************************************)
(* Bounds of the model.                                                    *)
(***************************************************************************)
\* config.max_history_size of the modelled session
MaxHistorySize == 2
\* performs are explored while the undo stack is shorter than this
MaxUndoDepth == 3
\* config.max_input_value of the modelled session
MaxInputValue == 4

MaxOpsDepth == 1

MaxIODepth == 1

MaxFileDepth == 2

MaxStoreLen == 2

(***************************************************************************)
(* Decimal values.  A value is the rational n/d in lowest terms (d > 0)    *)
(* with the way it was obtained: "exact" when the number is represented    *)
(* exactly, "dec28" for a quotient rounded to the decimal context's 28     *)
(* digits, "f64" for a quotient rounded to a double before conversion to   *)
(* Decimal, "f64root" for a root n^(1/d) that is not an integer (computed  *)
(* in doubles), "f64sum" for a sum n/d of which an operand was "f64": it    *)
(* carries that operand's error and is not the double nearest to n/d.  An  *)
(* operand typed by the user is exact: an integer, or a decimal fraction,  *)
(* which the model feeds to Addition only; an operand read back from the   *)
(* history file may be "f64".                                              *)
(***************************************************************************)
Abs(i) == IF i < 0 THEN -i ELSE i

Sign(i) == IF i < 0 THEN -1 ELSE IF i = 0 THEN 0 ELSE 1

RECURSIVE GCD(_, _)
GCD(a, b) == IF b = 0 THEN a ELSE GCD(b, a % b)

RECURSIVE IPow(_, _)
IPow(a, e) == IF e = 0 THEN 1 ELSE a * IPow(a, e - 1)

\* d has no prime factor other than 2 and 5: n/d has a finite decimal expansion
RECURSIVE OnlyFactors(_, _)
OnlyFactors(d, ps) ==
    IF d = 1 THEN TRUE
    ELSE IF \E p \in ps : d % p = 0
         THEN OnlyFactors(d \div (CHOOSE p \in ps : d % p = 0), ps)
         ELSE FALSE

\* the rational n/d (d # 0) in lowest terms with a positive denominator
Q(n, d, kind) ==
    LET g == GCD(Abs(n), Abs(d))
        s == Sign(d)
    IN  [n |-> (s * n) \div g, d |-> Abs(d) \div g,
         k |-> IF Abs(d) \div g = 1 THEN "exact" ELSE kind]

DInt(i) == [n |-> i, d |-> 1, k |-> "exact"]

\* Decimal addition x + y: exact for exact operands (the sums of the model
\* stay well inside 28 digits); an operand that carries the error of a
\* binary double passes that error on
DecAdd(x, y) ==
    [Q(x.n * y.d + y.n * x.d, x.d * y.d, "exact")
        EXCEPT !.k = IF x.k = "exact" /\ y.k = "exact" THEN "exact" ELSE "f64sum"]

NoValue == [n |-> 0, d |-> 0, k |-> "none"]

NoError == [type |-> "None", msg |-> <<>>]

\* outcome of a call: a value returned, or an exception raised
Return(v) == [ok |-> TRUE, val |-> v, err |-> NoError]

Raise(t, m) == [ok |-> FALSE, val |-> NoValue, err |-> [type |-> t, msg |-> m]]

\* Decimal division x / y for y # 0, rounded to the context precision
DecDiv(x, y) ==
    LET r == Q(x.n * y.d, x.d * y.n, "dec28")
    IN  IF OnlyFactors(r.d, {2, 5}) THEN [r EXCEPT !.k = "exact"] ELSE r

\* a remainder x % y as Python's integers take it: the sign follows the divisor
FloorMod(x, y) == DInt(x.n - y.n * ((Sign(y.n) * x.n) \div Abs(y.n)))

\* Decimal remainder x % y for integers: the sign follows the dividend
DecMod(x, y) ==
    LET q == Abs(x.n) \div Abs(y.n)
    IN  DInt(Sign(x.n) * (Abs(x.n) - q * Abs(y.n)))

\* math.floor(float(x) / float(y)) for integers, y # 0
FloorDiv(x, y) == DInt((Sign(y.n) * x.n) \div Abs(y.n))

\* Decimal(pow(float(x), float(y))) for integers x, y
FloatPow(x, y) ==
    IF y.n >= 0 THEN Return(DInt(IPow(x.n, y.n)))
    ELSE IF x.n = 0
         THEN Raise("ZeroDivisionError",
                    <<"0.0", "cannot", "be", "raised", "to", "a", "negative", "power">>)
         ELSE LET r == Q(1, IPow(x.n, -y.n), "f64")
              IN  Return(IF OnlyFactors(r.d, {2}) THEN [r EXCEPT !.k = "exact"] ELSE r)

\* the integer r >= 0 with r^e = a, or -1 when there is none (a >= 0, e >= 1)
IntRoot(a, e) ==
    IF \E r \in 0..a : IPow(r, e) = a
    THEN CHOOSE r \in 0..a : IPow(r, e) = a
    ELSE -1

\* Decimal(pow(float(x), 1 / float(y))) for integers x, y with y # 0
FloatRoot(x, y) ==
    IF y.n = 1 THEN Return(x)
    ELSE IF y.n = -1 THEN FloatPow(x, y)
    ELSE IF x.n < 0
         THEN Raise("TypeError", <<"conversion", "from", "complex", "to",
                                   "Decimal", "is", "not", "supported">>)
    ELSE IF x.n = 0
         THEN IF y.n > 0 THEN Return(DInt(0))
              ELSE Raise("ZeroDivisionError",
                         <<"0.0", "cannot", "be", "raised", "to", "a", "negative", "power">>)
    ELSE IF x.n = 1 THEN Return(DInt(1))
    ELSE IF y.n > 0 /\ IntRoot(x.n, y.n) >= 0 THEN Return(DInt(IntRoot(x.n, y.n)))
    ELSE Return([n |-> x.n, d |-> y.n, k |-> "f64root"])


(***************************************************************************)
(* Operation strategies (app/operations.py).  A strategy is named by its   *)
(* class; str(operation) is the class name.                                *)
(***************************************************************************)
ValidationError(m) == Raise("ValidationError", m)

OperationError(m) == Raise("OperationError", m)

Addition_execute(a, b) == Return(DecAdd(a, b))

Subtraction_execute(a, b) == Return(DInt(a.n - b.n))

Multiplication_execute(a, b) == Return(DInt(a.n * b.n))

Division_execute(a, b) ==
    IF b.n = 0
    THEN ValidationError(<<"Division", "by", "zero", "is", "not", "allowed", ".">>)
    ELSE Return(DecDiv(a, b))

Power_execute(a, b) == FloatPow(a, b)

Root_execute(a, b) ==
    IF b.n = 0
    THEN ValidationError(<<"Zero", "root", "is", "undefined", ".">>)
    ELSE IF a.n < 0 /\ b.n % 2 = 0
         THEN ValidationError(<<"Cannot", "calculate", "even", "root", "of",
                                "a", "negative", "number", ".">>)
         ELSE FloatRoot(a, b)

\* a modulus that leaves the zero divisor to Decimal's own arithmetic
Modulus_execute_unchecked(a, b) ==
    IF b.n = 0
    THEN Raise("InvalidOperation", <<"[<class", "'decimal.InvalidOperation'>]">>)
    ELSE Return(DecMod(a, b))

Modulus_execute(a, b) ==
    IF b.n = 0
    THEN ValidationError(<<"Cannot", "perform", "modulus", "with", "divisor", "0", ".">>)
    ELSE Return(DecMod(a, b))

\* the strategy wraps whatever its validation raised into a new ValidationError
IntegerDivision_execute(a, b) ==
    IF b.n = 0
    THEN ValidationError(<<"Integer", "division", "failed", ":", "Cannot", "perform",
                           "integer", "division", "by", "zero", ".">>)
    ELSE Return(FloorDiv(a, b))

Percentage_execute(a, b) ==
    IF b.n = 0
    THEN ValidationError(<<"Cannot", "calculate", "percentage", "with", "divisor", "0", ".">>)
    ELSE LET q == DecDiv(a, b)
         IN  Return(Q(100 * q.n, q.d, q.k))

AbsoluteDifference_execute(a, b) == Return(DInt(Abs(a.n - b.n)))

OperationClasses ==
    {"Addition", "Subtraction", "Multiplication", "Division", "Power", "Root",
     "Modulus", "IntegerDivision", "Percentage", "AbsoluteDifference"}

\* operation.execute(a, b), dispatched on the strategy's class
execute(cls, a, b) ==
    CASE cls = "Addition" -> Addition_execute(a, b)
      [] cls = "Subtraction" -> Subtraction_execute(a, b)
      [] cls = "Multiplication" -> Multiplication_execute(a, b)
      [] cls = "Division" -> Division_execute(a, b)
      [] cls = "Power" -> Power_execute(a, b)
      [] cls = "Root" -> Root_execute(a, b)
      [] cls = "Modulus" -> Modulus_execute(a, b)
      [] cls = "IntegerDivision" -> IntegerDivision_execute(a, b)
      [] cls = "Percentage" -> Percentage_execute(a, b)
      [] cls = "AbsoluteDifference" -> AbsoluteDifference_execute(a, b)

\* OperationFactory._operations as the module defines it
BuiltinOperations ==
    [key \in {"add", "subtract", "multiply", "divide", "power", "root", "modulus",
              "int_divide", "percent", "percentage", "abs_diff"} |->
        CASE key = "add" -> "Addition"
          [] key = "subtract" -> "Subtraction"
          [] key = "multiply" -> "Multiplication"
          [] key = "divide" -> "Division"
          [] key = "power" -> "Power"
          [] key = "root" -> "Root"
          [] key = "modulus" -> "Modulus"
          [] key = "int_divide" -> "IntegerDivision"
          [] key = "percent" -> "Percentage"
          [] key = "percentage" -> "Percentage"
          [] key = "abs_diff" -> "AbsoluteDifference"]

\* the ten command names of the REPL
CommandNames ==
    {"add", "subtract", "multiply", "divide", "power", "root", "modulus",
     "int_divide", "percent", "abs_diff"}

\* str.lower() on the names the model feeds in
lower(name) ==
    CASE name = "ADD" -> "add"
      [] name = "Addition" -> "addition"
      [] name = "IntegerDivision" -> "integerdivision"
      [] name = "NEW_OP" -> "new_op"
      [] name = " NEW_OP " -> " new_op "
      [] name = "NewOp" -> "newop"
      [] name = " Exit " -> " exit "
      [] name = "CANCEL" -> "cancel"
      [] OTHER -> name

\* str.strip() on the names the model feeds in
strip(name) ==
    CASE name = " add " -> "add"
      [] name = " new_op " -> "new_op"
      [] name = " exit " -> "exit"
      [] name = " cancel " -> "cancel"
      [] OTHER -> name

\* str.lower().strip()
lower_strip(name) == strip(lower(name))

\* cls.__name__.lower() for the built-in classes
class_name_lower(cls) ==
    CASE cls = "Addition" -> "addition"
      [] cls = "Subtraction" -> "subtraction"
      [] cls = "Multiplication" -> "multiplication"
      [] cls = "Division" -> "division"
      [] cls = "Power" -> "power"
      [] cls = "Root" -> "root"
      [] cls = "Modulus" -> "modulus"
      [] cls = "IntegerDivision" -> "integerdivision"
      [] cls = "Percentage" -> "percentage"
      [] cls = "AbsoluteDifference" -> "absolutedifference"
      [] cls = "NewOp" -> "newop"
      [] OTHER -> cls

\* issubclass(operation_class, Operation): the built-in strategies and NewOp, a
\* strategy class written by the caller; Invalid is a class that is no Operation
issubclass_Operation(operation_class) ==
    operation_class \in OperationClasses \cup {"NewOp"}

\* a factory that resolves registered keys only
create_operation_keys_only(registry, operation_type) ==
    IF lower_strip(operation_type) \in DOMAIN registry
    THEN [ok |-> TRUE, cls |-> registry[lower_strip(operation_type)], err |-> NoError]
    ELSE [ok |-> FALSE, cls |-> "None",
          err |-> [type |-> "ValueError",
                   msg |-> <<"Unknown", "operation", ":", lower_strip(operation_type)>>]]

\* OperationFactory.create_operation: key match, then class-name match
create_operation(registry, operation_type) ==
    LET key == lower_strip(operation_type)
    IN  IF key \in DOMAIN registry
        THEN [ok |-> TRUE, cls |-> registry[key], err |-> NoError]
        ELSE IF \E k \in DOMAIN registry : class_name_lower(registry[k]) = key
             THEN [ok |-> TRUE,
                   cls |-> registry[CHOOSE k \in DOMAIN registry :
                                       class_name_lower(registry[k]) = key],
                   err |-> NoError]
             ELSE [ok |-> FALSE, cls |-> "None",
                   err |-> [type |-> "ValueError",
                            msg |-> <<"Unknown", "operation", ":", key>>]]

(***************************************************************************)
(* Input validation (app/input_validators.py).  A raw input is a number    *)
(* (given as a number or as its text: the integer i, or the decimal        *)
(* fraction n/d), None, a blank string, or text that is no number.         *)
(***************************************************************************)
RawNum(i) == [kind |-> "num", n |-> i, d |-> 1]

RawDec(n, d) == [kind |-> "num", n |-> n, d |-> d]

RawNone == [kind |-> "none", n |-> 0, d |-> 1]

RawBlank == [kind |-> "blank", n |-> 0, d |-> 1]

RawJunk == [kind |-> "junk", n |-> 0, d |-> 1]

\* the text of the number n/d in a message
number_text(n, d) == IF d = 1 THEN ToString(n) ELSE <<ToString(n), "/", ToString(d)>>

\* a validation without the limit on the absolute value
validate_number_unbounded(value, cfg) ==
    IF value.kind = "none"
    THEN ValidationError(<<"Input", "cannot", "be", "None", ".", "Please", "enter",
                           "a", "valid", "number", ".">>)
    ELSE IF value.kind = "blank"
    THEN ValidationError(<<"Input", "cannot", "be", "empty", "or", "whitespace", ".">>)
    ELSE IF value.kind = "junk"
    THEN ValidationError(<<"Invalid", "number", "format", ":", "junk", ".", "Please", "enter",
                           "a", "valid", "numeric", "value", ".">>)
    ELSE Return(Q(value.n, value.d, "exact"))

validate_number(value, cfg) ==
    IF value.kind = "none"
    THEN ValidationError(<<"Input", "cannot", "be", "None", ".", "Please", "enter",
                           "a", "valid", "number", ".">>)
    ELSE IF value.kind = "blank"
    THEN ValidationError(<<"Input", "cannot", "be", "empty", "or", "whitespace", ".">>)
    ELSE IF value.kind = "junk"
    THEN ValidationError(<<"Invalid", "number", "format", ":", "junk", ".", "Please", "enter",
                           "a", "valid", "numeric", "value", ".">>)
    ELSE IF Abs(value.n) > cfg.max_input_value * value.d
    THEN ValidationError(<<"Value", number_text(value.n, value.d), "exceeds", "the",
                           "maximum", "allowed", "limit", ToString(cfg.max_input_value)>>)
    ELSE Return(Q(value.n, value.d, "exact"))

(***************************************************************************)
(* The Calculation record (app/calculation.py).  Its result is computed by *)
(* Calculation.calculate, which has its own table of operations.           *)
(***************************************************************************)
NoCalc == [operation |-> "None", operand1 |-> NoValue, operand2 |-> NoValue,
           result |-> NoValue, timestamp |-> "None"]

\* datetime.datetime.now(): the moment a Calculation is constructed in this session
Now == "now"

\* a calculate that adds, whatever the operation
calculate_adding(operation, x, y) == Return(DecAdd(x, y))

calculate(operation, x, y) ==
    CASE operation = "Addition" -> Return(DecAdd(x, y))
      [] operation = "Subtraction" -> Return(DInt(x.n - y.n))
      [] operation = "Multiplication" -> Return(DInt(x.n * y.n))
      [] operation = "Division" ->
            IF y.n # 0 THEN Return(DecDiv(x, y))
            ELSE OperationError(<<"Division", "by", "zero", "is", "not", "allowed">>)
      [] operation = "Power" ->
            IF y.n >= 0 THEN FloatPow(x, y)
            ELSE OperationError(<<"Negative", "exponents", "are", "not", "supported">>)
      [] operation = "Root" ->
            IF x.n >= 0 /\ y.n # 0
            THEN LET r == FloatRoot(x, y)
                 IN  IF r.ok \/ r.err.type # "ZeroDivisionError" THEN r
                     ELSE OperationError(<<"Calculation", "failed", ":">> \o r.err.msg)
            ELSE IF y.n = 0
                 THEN OperationError(<<"Zero", "root", "is", "undefined">>)
                 ELSE OperationError(<<"Cannot", "calculate", "root", "of",
                                       "negative", "number">>)
      [] OTHER -> OperationError(<<"Unknown", "operation", ":", operation>>)

\* __post_init__: the record with the result r that calculate gave
post_init(operation, operand1, operand2, r) ==
    [ok |-> r.ok,
     calc |-> IF r.ok
              THEN [operation |-> operation, operand1 |-> operand1,
                    operand2 |-> operand2, result |-> r.val,
                    timestamp |-> Now]
              ELSE NoCalc,
     err |-> r.err]

\* Calculation(operation, operand1, operand2): __post_init__ computes the
\* result; the timestamp defaults to the moment of construction
Calculation(operation, operand1, operand2) ==
    post_init(operation, operand1, operand2, calculate(operation, operand1, operand2))

\* Calculation.__eq__: the timestamp takes no part
Calculation_eq(c1, c2) ==
    /\ c1.operation = c2.operation
    /\ c1.operand1 = c2.operand1
    /\ c1.operand2 = c2.operand2
    /\ c1.result = c2.result


(***************************************************************************)
(* The session (app/calculator.py).                                        *)
(***************************************************************************)
VARIABLES
    heap,                \* the list objects: reference -> sequence of Calculations
    history,             \* Calculator.history: a reference to the live list
    undo_stack,          \* Calculator.undo_stack: the lists held by its mementos
    redo_stack,          \* Calculator.redo_stack: the lists held by its mementos
    operation_strategy,  \* Calculator.operation_strategy: a class name or "None"
    observers,           \* Calculator.observers
    config,              \* Calculator.config
    operations,          \* OperationFactory._operations
    history_file,        \* the CSV file at config.history_file
    outcome,             \* the last call: its name, arguments and what it returned or raised
    recent,              \* the last two calls, older first, each with its success
    depth_before,        \* the depths of the undo and redo stacks before the last call
    h_before,            \* the contents of the history before the last call
    created,             \* the Calculation the last call constructed, or NoCalc
    notified,            \* the observers whose update() the last call invoked
    warnings,            \* how many warnings the last call logged
    performed,           \* the records appended since the session was last empty
    records,             \* History.records of a History store on the same file
    repl,                \* calculator_repl: where the loop stands and what it last printed
    caretaker,           \* a Caretaker: its _undo_stack and _redo_stack, and whether
                         \* it is run beside the Calculator
    caretaker_result     \* what the last call on the Caretaker returned or raised

vars == <<heap, history, undo_stack, redo_stack, operation_strategy, observers,
          config, operations, history_file, outcome, recent, depth_before, h_before,
          created, notified, warnings, performed, records, repl, caretaker,
          caretaker_result>>

\* the contents of the live history
H == heap[history]

NoArgs == [name |-> "", cls |-> "None", a |-> RawNone, b |-> RawNone]

\* what a call reports: raised is an exception, ret is a boolean return value
Outcome(call, args, raised, err, val, ret) ==
    [call |-> call, args |-> args, raised |-> raised, err |-> err, val |-> val,
     ret |-> ret]

Range(s) == {s[i] : i \in DOMAIN s}

Last(s) == s[Len(s)]

Front(s) == SubSeq(s, 1, Len(s) - 1)

\* a reference no list of the heap has
NewRef(used) == CHOOSE r \in 1..(Cardinality(used) + 1) : r \notin used

\* The lists the session refers to, named by where the session holds them: the
\* live history first, then the mementos of the undo stack, then those of the
\* redo stack (a list held twice keeps one name).  Lists nothing refers to any
\* more are dropped.  Which address a list object has is not observable.
Canon(hp, hist, us, rs) ==
    LET order == <<hist>> \o us \o rs
        pos(r) == CHOOSE i \in DOMAIN order :
                      /\ order[i] = r
                      /\ \A j \in 1..(i - 1) : order[j] # r
    IN  [heap |-> [i \in {pos(r) : r \in Range(order)} |-> hp[order[i]]],
         history |-> pos(hist),
         undo_stack |-> [i \in DOMAIN us |-> pos(us[i])],
         redo_stack |-> [i \in DOMAIN rs |-> pos(rs[i])]]

\* the list itself where a copy is due
SameList(hp, ref) == [ref |-> ref, heap |-> hp]

\* list.copy(): a new list object with the same elements
ListCopy(hp, ref) ==
    LET r == NewRef(DOMAIN hp)
    IN  [ref |-> r, heap |-> (r :> hp[ref]) @@ hp]

\* CalculatorMemento.get_state(): [calc for calc in self.history], a new list
get_state(hp, memento) ==
    LET r == NewRef(DOMAIN hp)
    IN  [ref |-> r, heap |-> (r :> hp[memento]) @@ hp]

\* an eviction that drops the newest record instead of the oldest
append_and_drop_newest(h, calculation, max_size) ==
    LET h2 == Append(h, calculation)
    IN  IF Len(h2) > max_size THEN Front(h2) ELSE h2

\* history.append(calculation), then pop(0) when over max_history_size
append_and_prune(h, calculation, max_size) ==
    LET h2 == Append(h, calculation)
    IN  IF Len(h2) > max_size THEN Tail(h2) ELSE h2

\* steps 1 to 3 of perform_operation: validate, execute, build the record
try_operation(strategy, a, b, cfg) ==
    LET va == validate_number(a, cfg)
        vb == validate_number(b, cfg)
        ex == execute(strategy, va.val, vb.val)
        cc == Calculation(strategy, va.val, vb.val)
        Wrap(e) == IF e.type = "ValidationError" THEN e
                   ELSE [type |-> "OperationError",
                         msg |-> <<"Operation", "failed", ":">> \o e.msg]
        Fail(e) == [ok |-> FALSE, val |-> NoValue, calc |-> NoCalc, err |-> Wrap(e)]
    IN  IF ~va.ok THEN Fail(va.err)
        ELSE IF ~vb.ok THEN Fail(vb.err)
        ELSE IF ~ex.ok THEN Fail(ex.err)
        ELSE IF ~cc.ok THEN Fail(cc.err)
        ELSE [ok |-> TRUE, val |-> ex.val, calc |-> cc.calc, err |-> NoError]

\* a snapshot that leaves the redo stack as it is
save_snapshot_keep_redo(hp, hist, us, rs) ==
    LET c == ListCopy(hp, hist)
    IN  [heap |-> c.heap, undo_stack |-> Append(us, c.ref), redo_stack |-> rs]

\* a step 4 that pushes no memento
save_snapshot_dropped(hp, hist, us, rs) ==
    [heap |-> hp, undo_stack |-> us, redo_stack |-> <<>>]

\* step 4 of perform_operation: push a memento of the history, clear the redo stack
save_snapshot(hp, hist, us, rs) ==
    LET c == ListCopy(hp, hist)
    IN  [heap |-> c.heap, undo_stack |-> Append(us, c.ref), redo_stack |-> <<>>]

\* a perform_operation that takes its snapshot before it executes
snapshot_before_raising(hp, hist, us, rs) ==
    LET c == ListCopy(hp, hist)
    IN  [heap |-> c.heap, undo_stack |-> Append(us, c.ref), redo_stack |-> <<>>]

\* steps 1 to 3 of perform_operation raised: step 4 is not reached, the
\* history and the stacks are as the call found them
raised_before_snapshot(hp, hist, us, rs) ==
    [heap |-> hp, undo_stack |-> us, redo_stack |-> rs]

(***************************************************************************)
(* The CSV file and the observers.                                         *)
(***************************************************************************)
NoFile == [exists |-> FALSE, rows |-> <<>>]

\* str(Decimal): the cell is text that holds every digit of the value
str_decimal(v) == [kind |-> "num", digits |-> v]

\* a cell whose text is no number, and a cell of a column the file lacks
JunkCell == [kind |-> "junk", digits |-> NoValue]

MissingCell == [kind |-> "missing", digits |-> NoValue]

\* datetime.isoformat() and datetime.fromisoformat() of the text it gives
isoformat(t) == [kind |-> "iso", digits |-> t]

fromisoformat(c) == c.digits

\* pd.read_csv then Decimal(cell) for a cell that holds a number: a whole
\* number is read exactly; any other number is read as the nearest binary
\* double, which is the number itself only when its denominator is a power of
\* two
read_cell(c) ==
    CASE c.digits.k \in {"f64", "f64root"} -> c.digits
      [] c.digits.k = "exact" /\ OnlyFactors(c.digits.d, {2}) -> c.digits
      [] OTHER -> [c.digits EXCEPT !.k = "f64"]

\* one row of the file for a record (save_history's dict, Calculation.to_dict)
to_row(calc) ==
    [operation |-> calc.operation, operand1 |-> str_decimal(calc.operand1),
     operand2 |-> str_decimal(calc.operand2), result |-> str_decimal(calc.result),
     timestamp |-> isoformat(calc.timestamp)]

to_rows(h) == [i \in 1..Len(h) |-> to_row(h[i])]

InvalidData ==
    [ok |-> FALSE, calc |-> NoCalc, warned |-> FALSE,
     err |-> [type |-> "OperationError",
              msg |-> <<"Invalid", "calculation", "data", ":">>]]

\* a from_dict that trusts the file: the stored result becomes the result
from_dict_trusting(row, c) ==
    IF ~c.ok
    THEN [ok |-> FALSE, calc |-> NoCalc, warned |-> FALSE, err |-> c.err]
    ELSE IF row.timestamp.kind # "iso" \/ row.result.kind # "num"
    THEN InvalidData
    ELSE [ok |-> TRUE,
          calc |-> [c.calc EXCEPT !.timestamp = fromisoformat(row.timestamp),
                                  !.result = read_cell(row.result)],
          warned |-> FALSE,
          err |-> NoError]

\* the rest of from_dict once Calculation(...) gave c: the stored timestamp is
\* kept, the stored result is only compared
from_dict_rest(row, c) ==
    IF ~c.ok
    THEN [ok |-> FALSE, calc |-> NoCalc, warned |-> FALSE, err |-> c.err]
    ELSE IF row.timestamp.kind # "iso" \/ row.result.kind # "num"
    THEN InvalidData
    ELSE [ok |-> TRUE,
          calc |-> [c.calc EXCEPT !.timestamp = fromisoformat(row.timestamp)],
          warned |-> c.calc.result # read_cell(row.result),
          err |-> NoError]

\* Calculation.from_dict(row): the record, whether a warning was logged for a
\* stored result that differs from the computed one, or the error raised
from_dict(row) ==
    IF \/ row.operation = "missing"
       \/ row.operand1.kind # "num"
       \/ row.operand2.kind # "num"
    THEN InvalidData
    ELSE from_dict_rest(row, Calculation(row.operation, read_cell(row.operand1),
                                         read_cell(row.operand2)))

\* what save_history leaves in the file: io_ok is whether the write succeeds
save_file(file, h, io_ok) ==
    IF io_ok THEN [exists |-> TRUE, rows |-> to_rows(h)] ELSE file

\* [Calculation.from_dict(row) for row in the rows]: what each row gives
deserialized(rows) == [i \in DOMAIN rows |-> from_dict(rows[i])]

\* the rows that from_dict rejects
bad_rows(ds) == {i \in DOMAIN ds : ~ds[i].ok}

\* how many of the rows before the n-th made from_dict log its warning: a
\* stored result that differs from the computed one
mismatches(ds, n) == Cardinality({i \in 1..(n - 1) : ds[i].warned})

\* the warnings logged while the rows were deserialized in file order, up to
\* the first row that fails
logged_mismatches(ds) ==
    IF bad_rows(ds) = {} THEN mismatches(ds, Len(ds) + 1)
    ELSE mismatches(ds, CHOOSE i \in bad_rows(ds) : \A j \in bad_rows(ds) : i <= j)

\* a loader that drops the rows it cannot read and installs the others
load_rows_skipping_bad(file, io_ok, ds) ==
    IF ~file.exists \/ ~io_ok \/ file.rows = <<>>
    THEN [ok |-> file.exists => io_ok, keep |-> TRUE, list |-> <<>>, warnings |-> 0]
    ELSE [ok |-> TRUE, keep |-> FALSE,
          list |-> SelectSeq([i \in DOMAIN ds |-> ds[i].calc], LAMBDA c : c # NoCalc),
          warnings |-> 0]

load_rows(file, io_ok, ds) ==
    IF ~file.exists THEN [ok |-> TRUE, keep |-> TRUE, list |-> <<>>, warnings |-> 0]
    ELSE IF ~io_ok THEN [ok |-> FALSE, keep |-> TRUE, list |-> <<>>, warnings |-> 0]
    ELSE IF file.rows = <<>>
         THEN [ok |-> TRUE, keep |-> TRUE, list |-> <<>>, warnings |-> 0]
    ELSE IF bad_rows(ds) # {}
         THEN [ok |-> FALSE, keep |-> TRUE, list |-> <<>>,
               warnings |-> logged_mismatches(ds)]
         ELSE [ok |-> TRUE, keep |-> FALSE, list |-> [i \in DOMAIN ds |-> ds[i].calc],
               warnings |-> logged_mismatches(ds)]

\* the list load_history installs, or the failure it reports; "keep" when the
\* file is missing or holds no row.  The rows are deserialized in file order
\* up to the first one that fails.
load_file(file, io_ok) == load_rows(file, io_ok, deserialized(file.rows))

\* observer.update(calculation): whether it raises, and whether it saved the history
observer_update(observer, cfg, io_ok) ==
    IF observer = "LoggingObserver"
    THEN [raised |-> TRUE, saved |-> FALSE]
    ELSE IF cfg.auto_save
         THEN [raised |-> ~io_ok, saved |-> io_ok]
         ELSE [raised |-> FALSE, saved |-> FALSE]

\* notify_observers from the i-th observer on: each update() in a try/except
RECURSIVE notify_from(_, _, _, _, _)
notify_from(obs, i, cfg, io_ok, acc) ==
    IF i > Len(obs) THEN acc
    ELSE LET u == observer_update(obs[i], cfg, io_ok)
         IN  notify_from(obs, i + 1, cfg, io_ok,
                [notified |-> Append(acc.notified, obs[i]),
                 warnings |-> acc.warnings + (IF u.raised THEN 1 ELSE 0),
                 saved |-> acc.saved \/ u.saved,
                 raised |-> FALSE])

\* a notification that lets the first exception of an update() through
notify_observers_propagating(obs, cfg, io_ok) ==
    LET raising == {i \in DOMAIN obs : observer_update(obs[i], cfg, io_ok).raised}
        first == CHOOSE i \in raising : \A j \in raising : i <= j
    IN  IF raising = {}
        THEN notify_from(obs, 1, cfg, io_ok,
                         [notified |-> <<>>, warnings |-> 0, saved |-> FALSE,
                          raised |-> FALSE])
        ELSE [notified |-> SubSeq(obs, 1, first), warnings |-> 0,
              saved |-> \E j \in 1..(first - 1) :
                           observer_update(obs[j], cfg, io_ok).saved,
              raised |-> TRUE]

\* a notification that stops after the first observer
notify_observers_first_only(obs, cfg, io_ok) ==
    notify_from(IF obs = <<>> THEN obs ELSE <<obs[1]>>, 1, cfg, io_ok,
                [notified |-> <<>>, warnings |-> 0, saved |-> FALSE, raised |-> FALSE])

notify_observers(obs, cfg, io_ok) ==
    notify_from(obs, 1, cfg, io_ok,
                [notified |-> <<>>, warnings |-> 0, saved |-> FALSE, raised |-> FALSE])


(***************************************************************************)
(* The History store (app/history.py): a list of records with its own save *)
(* and load.  The session does not use it; it is modelled on the same      *)
(* file.  h_before holds History.records as they were before the call.     *)
(***************************************************************************)
HistoryError(m) == [type |-> "HistoryError", msg |-> m]

\* History(file_path)
History_init == records = <<>>

History_called(o, logged) ==
    /\ outcome' = o
    /\ recent' = <<recent[2], [call |-> o.call, ok |-> ~o.raised]>>
    /\ depth_before' = <<Len(undo_stack), Len(redo_stack)>>
    /\ h_before' = records
    /\ warnings' = logged
    /\ UNCHANGED <<heap, history, undo_stack, redo_stack, operation_strategy,
                   observers, config, operations, created, notified, performed,
                   repl, caretaker, caretaker_result>>

\* an object that is no Calculation
NotACalculation == [NoCalc EXCEPT !.operation = "not_a_calc"]

History_append(calculation) ==
    /\ IF calculation.result # NoValue
       THEN /\ records' = Append(records, calculation)
            /\ History_called([call |-> "History.append", args |-> NoArgs,
                               raised |-> FALSE, err |-> NoError, val |-> NoValue,
                               ret |-> "None"], 0)
       ELSE /\ UNCHANGED records
            /\ History_called([call |-> "History.append", args |-> NoArgs,
                               raised |-> TRUE,
                               err |-> HistoryError(<<"Invalid", "calculation", "type",
                                                      "for", "history", ".">>),
                               val |-> NoValue, ret |-> "None"], 0)
    /\ UNCHANGED history_file

History_clear ==
    /\ records' = <<>>
    /\ History_called([call |-> "History.clear", args |-> NoArgs, raised |-> FALSE,
                       err |-> NoError, val |-> NoValue, ret |-> "None"], 0)
    /\ UNCHANGED history_file

\* History.save(): io_ok is whether the write succeeds.  A file written from
\* no record holds no row.
History_save(io_ok) ==
    /\ history_file' = IF io_ok THEN [exists |-> TRUE, rows |-> to_rows(records)]
                       ELSE history_file
    /\ History_called([call |-> "History.save", args |-> NoArgs, raised |-> ~io_ok,
                       err |-> IF io_ok THEN NoError
                               ELSE HistoryError(<<"Failed", "to", "save",
                                                   "history", ":">>),
                       val |-> NoValue, ret |-> "None"], 0)
    /\ UNCHANGED records

History_loaded(io_ok, ds) ==
    /\ IF ~history_file.exists
       THEN /\ records' = <<>>
            /\ History_called([call |-> "History.load", args |-> NoArgs,
                               raised |-> FALSE, err |-> NoError, val |-> NoValue,
                               ret |-> "None"], 1)
       ELSE IF ~io_ok \/ bad_rows(ds) # {}
       THEN /\ UNCHANGED records
            /\ History_called([call |-> "History.load", args |-> NoArgs,
                               raised |-> TRUE,
                               err |-> HistoryError(<<"Failed", "to", "load",
                                                      "history", ":">>),
                               val |-> NoValue, ret |-> "None"],
                              IF io_ok THEN logged_mismatches(ds) ELSE 0)
       ELSE /\ records' = [i \in DOMAIN ds |-> ds[i].calc]
            /\ History_called([call |-> "History.load", args |-> NoArgs,
                               raised |-> FALSE, err |-> NoError, val |-> NoValue,
                               ret |-> "None"], logged_mismatches(ds))
    /\ UNCHANGED history_file

\* History.load(): io_ok is whether pandas reads the file.  A missing file is
\* logged as a warning and empties the store; any other failure raises and
\* leaves the store as it was.
History_load(io_ok) == History_loaded(io_ok, deserialized(history_file.rows))

(***************************************************************************)
(* Calculator.__init__ and the operations of the session.  Every action    *)
(* records the call in outcome and keeps the bookkeeping variables.        *)
(***************************************************************************)
(***************************************************************************)
(* The Caretaker and its mementos (app/calculator_memento.py).             *)
(***************************************************************************)
\* a CalculatorMemento object; obj tells the objects a Caretaker holds apart,
\* and is 0 for an object in the hands of the caller
CalculatorMemento(h, timestamp) ==
    [class |-> "CalculatorMemento", obj |-> 0, history |-> h, timestamp |-> timestamp]

\* an object that is no CalculatorMemento
NotAMemento == [class |-> "str", obj |-> 0, history |-> <<>>, timestamp |-> "None"]

isinstance_CalculatorMemento(memento) == memento.class = "CalculatorMemento"

\* deepcopy(memento): an equal memento that is the new object obj
deepcopy(memento, obj) == [memento EXCEPT !.obj = obj]

\* an object number no memento of the Caretaker c carries
new_object(c) ==
    LET used == {c.undo_stack[i].obj : i \in DOMAIN c.undo_stack}
                    \cup {c.redo_stack[i].obj : i \in DOMAIN c.redo_stack}
    IN  CHOOSE i \in 1..(Cardinality(used) + 1) : i \notin used

\* what a call on the Caretaker did: ret holds the memento returned, and is
\* empty for None; flag holds the bool returned by can_undo() and can_redo();
\* before holds the stacks as the call found them
CaretakerResult(call, err, ret) ==
    [call |-> call, raised |-> err # NoError, err |-> err, ret |-> ret,
     flag |-> "None",
     before |-> [undo_stack |-> <<>>, redo_stack |-> <<>>, beside |-> FALSE]]

\* the result of a call that returns the bool value
CaretakerFlag(call, value) ==
    [CaretakerResult(call, NoError, <<>>) EXCEPT
        !.flag = IF value THEN "True" ELSE "False"]

\* the Caretaker after a call, and the result of the call
CaretakerAfter(undo, redo, result) ==
    [caretaker |-> [undo_stack |-> undo, redo_stack |-> redo], result |-> result]

\* Caretaker()
Caretaker_init ==
    /\ caretaker = [undo_stack |-> <<>>, redo_stack |-> <<>>, beside |-> FALSE]
    /\ caretaker_result = CaretakerResult("__init__", NoError, <<>>)

\* save_state() clearing the redo stack before it looks at its argument
save_state_clearing_first(c, memento) ==
    IF ~isinstance_CalculatorMemento(memento)
    THEN CaretakerAfter(c.undo_stack, <<>>,
                        CaretakerResult("save_state",
                            HistoryError(<<"Invalid", "memento", "type", ".">>), <<>>))
    ELSE CaretakerAfter(Append(c.undo_stack, deepcopy(memento, new_object(c))), <<>>,
                        CaretakerResult("save_state", NoError, <<>>))

\* Caretaker.save_state(memento)
save_state(c, memento) ==
    IF ~isinstance_CalculatorMemento(memento)
    THEN CaretakerAfter(c.undo_stack, c.redo_stack,
                        CaretakerResult("save_state",
                            HistoryError(<<"Invalid", "memento", "type", ".">>), <<>>))
    ELSE CaretakerAfter(Append(c.undo_stack, deepcopy(memento, new_object(c))), <<>>,
                        CaretakerResult("save_state", NoError, <<>>))

\* undo() returning the memento it popped
Caretaker_undo_returning_popped(c) ==
    IF c.undo_stack = <<>>
    THEN CaretakerAfter(c.undo_stack, c.redo_stack,
                        CaretakerResult("undo",
                            HistoryError(<<"No", "state", "to", "undo", ".">>), <<>>))
    ELSE CaretakerAfter(Front(c.undo_stack), Append(c.redo_stack, Last(c.undo_stack)),
                        CaretakerResult("undo", NoError,
                                        <<deepcopy(Last(c.undo_stack), 0)>>))

\* Caretaker.undo()
Caretaker_undo(c) ==
    IF c.undo_stack = <<>>
    THEN CaretakerAfter(c.undo_stack, c.redo_stack,
                        CaretakerResult("undo",
                            HistoryError(<<"No", "state", "to", "undo", ".">>), <<>>))
    ELSE LET last_state == Last(c.undo_stack)
             rest == Front(c.undo_stack)
         IN  CaretakerAfter(rest, Append(c.redo_stack, last_state),
                            CaretakerResult("undo", NoError,
                                IF rest # <<>> THEN <<deepcopy(Last(rest), 0)>>
                                ELSE <<>>))

\* Caretaker.redo()
Caretaker_redo(c) ==
    IF c.redo_stack = <<>>
    THEN CaretakerAfter(c.undo_stack, c.redo_stack,
                        CaretakerResult("redo",
                            HistoryError(<<"No", "state", "to", "redo", ".">>), <<>>))
    ELSE LET restored_state == Last(c.redo_stack)
         IN  CaretakerAfter(Append(c.undo_stack, restored_state), Front(c.redo_stack),
                            CaretakerResult("redo", NoError,
                                            <<deepcopy(restored_state, 0)>>))

\* Caretaker.current_state()
current_state(c) ==
    CaretakerAfter(c.undo_stack, c.redo_stack,
                   CaretakerResult("current_state", NoError,
                       IF c.undo_stack # <<>> THEN <<deepcopy(Last(c.undo_stack), 0)>>
                       ELSE <<>>))

\* Caretaker.clear()
Caretaker_clear(c) ==
    CaretakerAfter(<<>>, <<>>, CaretakerResult("clear", NoError, <<>>))

\* Caretaker.can_undo()
can_undo(c) ==
    CaretakerAfter(c.undo_stack, c.redo_stack,
                   CaretakerFlag("can_undo", Len(c.undo_stack) > 1))

\* Caretaker.can_redo()
can_redo(c) ==
    CaretakerAfter(c.undo_stack, c.redo_stack,
                   CaretakerFlag("can_redo", Len(c.redo_stack) > 0))

\* a call on the Caretaker has returned or raised
Caretaker_returns(after) ==
    /\ caretaker' = [caretaker EXCEPT !.undo_stack = after.caretaker.undo_stack,
                                      !.redo_stack = after.caretaker.redo_stack]
    /\ caretaker_result' = [after.result EXCEPT !.before = caretaker]

\* a Caretaker run beside the Calculator: the call that ended with o is
\* repeated on it: save_state() of the snapshot of the history as it was before
\* the append for a successful perform_operation(), undo() for undo(), redo()
\* for redo(), clear() for clear_history()
Beside(o) ==
    IF caretaker.beside /\ o.call = "perform_operation" /\ ~o.raised
    THEN Caretaker_returns(save_state(caretaker, CalculatorMemento(H, Now)))
    ELSE IF caretaker.beside /\ o.call = "undo"
    THEN Caretaker_returns(Caretaker_undo(caretaker))
    ELSE IF caretaker.beside /\ o.call = "redo"
    THEN Caretaker_returns(Caretaker_redo(caretaker))
    ELSE IF caretaker.beside /\ o.call = "clear_history"
    THEN Caretaker_returns(Caretaker_clear(caretaker))
    ELSE UNCHANGED <<caretaker, caretaker_result>>

\* a call on the Caretaker: the calculator, the store and the loop stand still
Caretaker_called(after) ==
    /\ Caretaker_returns(after)
    /\ UNCHANGED <<heap, history, undo_stack, redo_stack, operation_strategy,
                   observers, config, operations, history_file, outcome, recent,
                   depth_before, h_before, created, notified, warnings, performed,
                   records, repl>>

(***************************************************************************)
(* The command loop (app/calculator_repl.py): what it printed, and how      *)
(* _perform_command goes on after the Calculator call it made.             *)
(***************************************************************************)
\* a line printed through success(), info(), warn() or error(): the helper
\* and the words before the detail
Printed(kind, text) == [kind |-> kind, text |-> text]

NothingPrinted == Printed("none", <<>>)

\* no loop is running: the calculator is driven by its caller
\* typed holds the lines input_func has returned to the command that runs or
\* ran last, printed what that command printed last, returned its return value
NoRepl ==
    [pc |-> "off", command |-> "", num1 |-> RawNone, num2 |-> RawNone,
     typed |-> <<>>, printed |-> NothingPrinted, returned |-> "None"]

\* an answer to a number prompt that never aborts the command
cancels_never(text) == FALSE

\* num.lower() == "cancel", on the stripped line typed at a number prompt
cancels(text) == lower(strip(text)) = "cancel"

\* _perform_command returns to a loop that never breaks
returns_looping(r, printed, value) ==
    [r EXCEPT !.pc = "prompt", !.num1 = RawNone, !.num2 = RawNone,
              !.printed = printed, !.returned = value]

\* _perform_command returns to a loop that always breaks
returns_breaking(r, printed, value) ==
    [r EXCEPT !.pc = "returned", !.num1 = RawNone, !.num2 = RawNone,
              !.printed = printed, !.returned = value]

\* _perform_command returns value, and its locals num1 and num2 are gone: the
\* loop prompts again unless the value is False
returns(r, printed, value) ==
    [r EXCEPT !.pc = IF value = "False" THEN "returned" ELSE "prompt",
              !.num1 = RawNone, !.num2 = RawNone,
              !.printed = printed, !.returned = value]

\* the except clauses that close _perform_command
except_clause(type) ==
    CASE type = "ValidationError" -> Printed("error", <<"Validation", "Error", ":">>)
      [] type = "OperationError" -> Printed("error", <<"Operation", "Error", ":">>)
      [] OTHER -> Printed("error", <<"Unexpected", "Error", ":">>)

\* the rest of _perform_command once the Calculator call it made has
\* returned or raised (o)
resume(r, o) ==
    CASE r.pc = "set_operation" ->
            IF o.raised THEN returns(r, except_clause(o.err.type), "True")
            ELSE [r EXCEPT !.pc = "perform_operation"]
      [] r.pc = "perform_operation" ->
            IF o.raised THEN returns(r, except_clause(o.err.type), "True")
            ELSE returns(r, Printed("success", <<"Result", ":">>), "True")
      [] r.pc = "clear_history" ->
            IF o.raised THEN returns(r, except_clause(o.err.type), "True")
            ELSE returns(r, Printed("warn", <<"History", "cleared", ".">>), "True")
      [] r.pc = "undo" ->
            IF o.raised THEN returns(r, except_clause(o.err.type), "True")
            ELSE returns(r, Printed("info",
                                    IF o.ret = "True" THEN <<"Operation", "undone", ".">>
                                    ELSE <<"Nothing", "to", "undo", ".">>), "True")
      [] r.pc = "redo" ->
            IF o.raised THEN returns(r, except_clause(o.err.type), "True")
            ELSE returns(r, Printed("info",
                                    IF o.ret = "True" THEN <<"Operation", "redone", ".">>
                                    ELSE <<"Nothing", "to", "redo", ".">>), "True")
      [] r.pc = "save_history" /\ r.command = "save" ->
            IF o.raised
            THEN returns(r, Printed("error", <<"Error", "saving", "history", ":">>), "True")
            ELSE returns(r, Printed("success",
                                    <<"History", "saved", "successfully", ".">>), "True")
      [] r.pc = "load_history" ->
            IF o.raised
            THEN returns(r, Printed("error", <<"Error", "loading", "history", ":">>), "True")
            ELSE returns(r, Printed("success",
                                    <<"History", "loaded", "successfully", ".">>), "True")
      [] r.pc = "save_history" /\ r.command = "exit" ->
            IF o.raised
            THEN returns(r, Printed("error", <<"Warning", ":", "Failed", "to", "save",
                                               "history", ":">>), "False")
            ELSE returns(r, Printed("warn", <<"Goodbye", "!">>), "False")
      [] OTHER -> r

Call(name, ok) == [call |-> name, ok |-> ok]

Recorded(o, calc, nt, perf) ==
    /\ outcome' = o
    /\ recent' = <<recent[2], Call(o.call, ~o.raised /\ o.ret # "False")>>
    /\ depth_before' = <<Len(undo_stack), Len(redo_stack)>>
    /\ h_before' = H
    /\ created' = calc
    /\ notified' = nt.notified
    /\ warnings' = nt.warnings
    /\ performed' = perf
    /\ repl' = resume(repl, o)
    /\ Beside(o)
    /\ UNCHANGED records

Quiet == [notified |-> <<>>, warnings |-> 0, saved |-> FALSE, raised |-> FALSE]

Streak(recs) == [valid |-> TRUE, recs |-> recs]

NoStreak == [valid |-> FALSE, recs |-> <<>>]

(***************************************************************************)
(* The configuration (app/calculator_config.py).                           *)
(***************************************************************************)
\* an argument of CalculatorConfig(...): left out (None), or given
NotGiven == [given |-> FALSE, value |-> 0]

\* a text argument left out
NoText == [given |-> FALSE, value |-> ""]

Given(value) == [given |-> TRUE, value |-> value]

\* CALCULATOR_PRECISION when the environment does not set it
DefaultPrecision == 10

\* what os.getenv gives for the settings of the configuration
Environment ==
    [max_history_size |-> MaxHistorySize, auto_save |-> TRUE,
     precision |-> DefaultPrecision, max_input_value |-> MaxInputValue,
     default_encoding |-> "utf-8"]

\* argument if the caller gave it, whatever its value
given_or(argument, default) == IF argument.given THEN argument.value ELSE default

\* argument or default: None is false, and so is the value falsy of the
\* type of the argument (0, Decimal(0), "")
or(argument, falsy, default) ==
    IF argument.given /\ argument.value # falsy THEN argument.value ELSE default

\* CalculatorConfig(max_history_size, auto_save, precision, max_input_value,
\* default_encoding) under the environment env
CalculatorConfig(args, env) ==
    [max_history_size |-> or(args.max_history_size, 0, env.max_history_size),
     auto_save |-> given_or(args.auto_save, env.auto_save),
     precision |-> or(args.precision, 0, env.precision),
     max_input_value |-> or(args.max_input_value, 0, env.max_input_value),
     default_encoding |-> or(args.default_encoding, "", env.default_encoding)]

NoConfigArgs ==
    [max_history_size |-> NotGiven, auto_save |-> NotGiven, precision |-> NotGiven,
     max_input_value |-> NotGiven, default_encoding |-> NoText]

ConfigurationError(m) == Raise("ConfigurationError", m)

\* the encodings "".encode() knows, of those the model feeds in
KnownEncodings == {"utf-8", "ascii"}

\* CalculatorConfig.validate()
validate(cfg) ==
    IF cfg.max_history_size <= 0
    THEN ConfigurationError(<<"max_history_size", "must", "be", "positive">>)
    ELSE IF cfg.precision <= 0
    THEN ConfigurationError(<<"precision", "must", "be", "positive">>)
    ELSE IF cfg.max_input_value <= 0
    THEN ConfigurationError(<<"max_input_value", "must", "be", "positive">>)
    ELSE IF cfg.default_encoding \notin KnownEncodings
    THEN ConfigurationError(<<"Unsupported", "encoding", ":", cfg.default_encoding>>)
    ELSE Return(NoValue)

\* Calculator.__init__(config) ending with the outcome o: once validate()
\* has passed, the fields are set and load_history gives l; the failure of the
\* load is logged as a warning
Calculator_init(file, cfg, l, o) ==
    LET loaded == IF l.ok /\ ~l.keep THEN l.list ELSE <<>>
    IN  /\ heap = (1 :> loaded)
        /\ history = 1
        /\ undo_stack = <<>>
        /\ redo_stack = <<>>
        /\ operation_strategy = "None"
        /\ observers = <<>>
        /\ config = cfg
        /\ operations = BuiltinOperations
        /\ history_file = file
        /\ outcome = o
        /\ recent = <<Call("", TRUE), Call("__init__", ~o.raised)>>
        /\ depth_before = <<0, 0>>
        /\ h_before = <<>>
        /\ created = NoCalc
        /\ notified = <<>>
        /\ warnings = l.warnings + (IF l.ok THEN 0 ELSE 1)
        /\ performed = IF loaded = <<>> THEN Streak(<<>>) ELSE NoStreak

\* __init__ calling load_history outside any try: the failure of the load
\* leaves the constructor
Constructed_load_unguarded(file, cfg, l) ==
    /\ validate(cfg).ok
    /\ Calculator_init(file, cfg, l,
                       IF l.ok
                       THEN Outcome("__init__", NoArgs, FALSE, NoError, NoValue, "None")
                       ELSE Outcome("__init__", NoArgs, TRUE,
                                    OperationError(<<"Failed", "to", "load", "history">>).err,
                                    NoValue, "None"))

\* the rest of __init__ once load_history gave l
Constructed_loading(file, cfg, l) ==
    /\ validate(cfg).ok
    /\ Calculator_init(file, cfg, l,
                       Outcome("__init__", NoArgs, FALSE, NoError, NoValue, "None"))

\* Calculator(config) with the history file as it is found: the load at
\* construction is wrapped in a try/except
Constructed(file, cfg) == Constructed_loading(file, cfg, load_file(file, TRUE))

\* the lists the session holds after a call
Installed(hp, hist, us, rs) ==
    LET c == Canon(hp, hist, us, rs)
    IN  /\ heap' = c.heap
        /\ history' = c.history
        /\ undo_stack' = c.undo_stack
        /\ redo_stack' = c.redo_stack

\* an assignment that forgets the strategy when create_operation raises
assign_strategy_resetting(c, selected) == IF c.ok THEN c.cls ELSE "None"

\* self.operation_strategy = OperationFactory.create_operation(...): the
\* assignment takes place only when create_operation returns
assign_strategy(c, selected) == IF c.ok THEN c.cls ELSE selected

set_operation(name) ==
    LET c == create_operation(operations, name)
    IN  /\ operation_strategy' = assign_strategy(c, operation_strategy)
        /\ Recorded(Outcome("set_operation", [NoArgs EXCEPT !.name = name], ~c.ok,
                            IF c.ok THEN NoError
                            ELSE [type |-> "OperationError", msg |-> c.err.msg],
                            NoValue, "None"),
                    NoCalc, Quiet, performed)
        /\ UNCHANGED <<heap, history, undo_stack, redo_stack, observers, config,
                       operations, history_file>>

\* a registration that accepts any class
register_operation_unchecked(name, operation_class) ==
    /\ operations' = (lower(name) :> operation_class) @@ operations
    /\ Recorded(Outcome("register_operation",
                        [NoArgs EXCEPT !.name = name, !.cls = operation_class],
                        FALSE, NoError, NoValue, "None"),
                NoCalc, Quiet, performed)
    /\ UNCHANGED <<heap, history, undo_stack, redo_stack, operation_strategy,
                   observers, config, history_file>>

\* OperationFactory.register_operation(name, operation_class)
register_operation(name, operation_class) ==
    /\ operations' = IF issubclass_Operation(operation_class)
                     THEN (lower(name) :> operation_class) @@ operations
                     ELSE operations
    /\ Recorded(Outcome("register_operation",
                        [NoArgs EXCEPT !.name = name, !.cls = operation_class],
                        ~issubclass_Operation(operation_class),
                        IF issubclass_Operation(operation_class) THEN NoError
                        ELSE [type |-> "TypeError",
                              msg |-> <<"Operation", "class", "must", "inherit",
                                        "from", "Operation", ".">>],
                        NoValue, "None"),
                NoCalc, Quiet, performed)
    /\ UNCHANGED <<heap, history, undo_stack, redo_stack, operation_strategy,
                   observers, config, history_file>>

\* the result c of OperationFactory.create_operation(operation_type) handed
\* to the caller: ret is the class of the instance returned
created_operation(operation_type, c) ==
    /\ Recorded(Outcome("create_operation", [NoArgs EXCEPT !.name = operation_type],
                        ~c.ok, c.err, NoValue, c.cls),
                NoCalc, Quiet, performed)
    /\ UNCHANGED <<heap, history, undo_stack, redo_stack, operation_strategy,
                   observers, config, operations, history_file>>

\* a direct call of OperationFactory.create_operation(operation_type)
OperationFactory_create_operation(operation_type) ==
    created_operation(operation_type, create_operation(operations, operation_type))

\* steps 4 to 6 of perform_operation for the record t built in steps 1 to 3, or
\* the exception of those steps
complete_operation(args, t, io_ok) ==
    LET s == save_snapshot(heap, history, undo_stack, redo_stack)
        hp == [s.heap EXCEPT
                 ![history] = append_and_prune(@, t.calc, config.max_history_size)]
        nt == notify_observers(observers, config, io_ok)
        f == raised_before_snapshot(heap, history, undo_stack, redo_stack)
    IN  IF ~t.ok
        THEN /\ Installed(f.heap, history, f.undo_stack, f.redo_stack)
             /\ Recorded(Outcome("perform_operation", args, TRUE, t.err, NoValue, "None"),
                         NoCalc, Quiet, performed)
             /\ UNCHANGED <<operation_strategy, observers, config, operations,
                            history_file>>
        ELSE /\ Installed(hp, history, s.undo_stack, s.redo_stack)
             /\ history_file' = IF nt.saved THEN save_file(history_file, hp[history], TRUE)
                                ELSE history_file
             /\ Recorded(IF nt.raised
                         THEN Outcome("perform_operation", args, TRUE,
                                      [type |-> "OperationError",
                                       msg |-> <<"Operation", "failed", ":", "observer">>],
                                      NoValue, "None")
                         ELSE Outcome("perform_operation", args, FALSE, NoError, t.val,
                                      "None"),
                         t.calc, nt,
                         IF performed.valid THEN Streak(Append(performed.recs, t.calc))
                         ELSE performed)
             /\ UNCHANGED <<operation_strategy, observers, config, operations>>

perform_operation(a, b, io_ok) ==
    IF operation_strategy = "None"
    THEN /\ Recorded(Outcome("perform_operation", [NoArgs EXCEPT !.a = a, !.b = b], TRUE,
                             [type |-> "OperationError",
                              msg |-> <<"No", "operation", "set", ".", "Please", "select",
                                        "an", "operation", "first", ".">>],
                             NoValue, "None"),
                     NoCalc, Quiet, performed)
         /\ UNCHANGED <<heap, history, undo_stack, redo_stack, operation_strategy,
                        observers, config, operations, history_file>>
    ELSE complete_operation([NoArgs EXCEPT !.a = a, !.b = b],
                            try_operation(operation_strategy, a, b, config), io_ok)

\* a transfer that moves the popped memento to dst instead of a memento of the
\* current history
swap_state_moves_popped(hp, hist, src, dst) ==
    LET g == get_state(hp, Last(src))
    IN  [heap |-> g.heap, history |-> g.ref, src |-> Front(src),
         dst |-> Append(dst, Last(src))]

\* a transfer that leaves the memento it installs on src
swap_state_not_popping(hp, hist, src, dst) ==
    LET c == ListCopy(hp, hist)
        g == get_state(c.heap, Last(src))
    IN  [heap |-> g.heap, history |-> g.ref, src |-> src, dst |-> Append(dst, c.ref)]

\* a transfer that pushes nothing on dst
swap_state_no_push(hp, hist, src, dst) ==
    LET g == get_state(hp, Last(src))
    IN  [heap |-> g.heap, history |-> g.ref, src |-> Front(src), dst |-> dst]

\* push a memento of the history on dst, install the state of the memento popped
\* from src: the body of undo (src the undo stack) and of redo (src the redo stack)
swap_state(hp, hist, src, dst) ==
    LET c == ListCopy(hp, hist)
        g == get_state(c.heap, Last(src))
    IN  [heap |-> g.heap, history |-> g.ref, src |-> Front(src),
         dst |-> Append(dst, c.ref)]

undo ==
    IF undo_stack = <<>>
    THEN /\ Recorded(Outcome("undo", NoArgs, FALSE, NoError, NoValue, "False"),
                     NoCalc, Quiet, performed)
         /\ UNCHANGED <<heap, history, undo_stack, redo_stack, operation_strategy,
                        observers, config, operations, history_file>>
    ELSE LET w == swap_state(heap, history, undo_stack, redo_stack)
         IN  /\ Installed(w.heap, w.history, w.src, w.dst)
             /\ Recorded(Outcome("undo", NoArgs, FALSE, NoError, NoValue, "True"),
                         NoCalc, Quiet, NoStreak)
             /\ UNCHANGED <<operation_strategy, observers, config, operations,
                            history_file>>

redo ==
    IF redo_stack = <<>>
    THEN /\ Recorded(Outcome("redo", NoArgs, FALSE, NoError, NoValue, "False"),
                     NoCalc, Quiet, performed)
         /\ UNCHANGED <<heap, history, undo_stack, redo_stack, operation_strategy,
                        observers, config, operations, history_file>>
    ELSE LET w == swap_state(heap, history, redo_stack, undo_stack)
         IN  /\ Installed(w.heap, w.history, w.dst, w.src)
             /\ Recorded(Outcome("redo", NoArgs, FALSE, NoError, NoValue, "True"),
                         NoCalc, Quiet, NoStreak)
             /\ UNCHANGED <<operation_strategy, observers, config, operations,
                            history_file>>

\* a clear that empties the history and leaves the stacks alone
clear_history_keeping_stacks ==
    /\ Installed([heap EXCEPT ![history] = <<>>], history, undo_stack, redo_stack)
    /\ Recorded(Outcome("clear_history", NoArgs, FALSE, NoError, NoValue, "None"),
                NoCalc, Quiet, Streak(<<>>))
    /\ UNCHANGED <<operation_strategy, observers, config, operations, history_file>>

clear_history ==
    /\ Installed([heap EXCEPT ![history] = <<>>], history, <<>>, <<>>)
    /\ Recorded(Outcome("clear_history", NoArgs, FALSE, NoError, NoValue, "None"),
                NoCalc, Quiet, Streak(<<>>))
    /\ UNCHANGED <<operation_strategy, observers, config, operations, history_file>>

save_history(io_ok) ==
    /\ history_file' = save_file(history_file, H, io_ok)
    /\ Recorded(IF io_ok
                THEN Outcome("save_history", NoArgs, FALSE, NoError, NoValue, "None")
                ELSE Outcome("save_history", NoArgs, TRUE,
                             [type |-> "OperationError",
                              msg |-> <<"Failed", "to", "save", "history", ":">>],
                             NoValue, "None"),
                NoCalc, Quiet, performed)
    /\ UNCHANGED <<heap, history, undo_stack, redo_stack, operation_strategy, observers,
                   config, operations>>

\* a load that starts the undo/redo bookkeeping afresh
assign_history_resetting(hp, us, rs, list) ==
    [heap |-> (NewRef(DOMAIN hp) :> list) @@ hp, history |-> NewRef(DOMAIN hp),
     undo_stack |-> <<>>, redo_stack |-> <<>>]

\* self.history = [...] in load_history: the list built from the file becomes
\* the history; the stacks are not mentioned
assign_history(hp, us, rs, list) ==
    [heap |-> (NewRef(DOMAIN hp) :> list) @@ hp, history |-> NewRef(DOMAIN hp),
     undo_stack |-> us, redo_stack |-> rs]

\* the rest of load_history once the file gave l
load_history_installing(l) ==
    /\ IF l.ok /\ ~l.keep
       THEN LET n == assign_history(heap, undo_stack, redo_stack, l.list)
            IN  Installed(n.heap, n.history, n.undo_stack, n.redo_stack)
       ELSE UNCHANGED <<heap, history, undo_stack, redo_stack>>
    /\ Recorded(IF l.ok
                THEN Outcome("load_history", NoArgs, FALSE, NoError, NoValue, "None")
                ELSE Outcome("load_history", NoArgs, TRUE,
                             [type |-> "OperationError",
                              msg |-> <<"Failed", "to", "load", "history", ":">>],
                             NoValue, "None"),
                NoCalc, [Quiet EXCEPT !.warnings = l.warnings],
                IF l.ok /\ ~l.keep THEN NoStreak ELSE performed)
    /\ UNCHANGED <<operation_strategy, observers, config, operations, history_file>>

load_history(io_ok) == load_history_installing(load_file(history_file, io_ok))

add_observer(observer) ==
    /\ observers' = Append(observers, observer)
    /\ Recorded(Outcome("add_observer", [NoArgs EXCEPT !.name = observer], FALSE,
                        NoError, NoValue, "None"),
                NoCalc, Quiet, performed)
    /\ UNCHANGED <<heap, history, undo_stack, redo_stack, operation_strategy, config,
                   operations, history_file>>

\* list.remove: the first equal element, ValueError when there is none
remove_observer(observer) ==
    LET at == CHOOSE i \in DOMAIN observers :
                  /\ observers[i] = observer
                  /\ \A j \in 1..(i - 1) : observers[j] # observer
        found == observer \in Range(observers)
    IN  /\ observers' = IF found
                        THEN SubSeq(observers, 1, at - 1)
                             \o SubSeq(observers, at + 1, Len(observers))
                        ELSE observers
        /\ Recorded(IF found
                    THEN Outcome("remove_observer", [NoArgs EXCEPT !.name = observer],
                                 FALSE, NoError, NoValue, "None")
                    ELSE Outcome("remove_observer", [NoArgs EXCEPT !.name = observer],
                                 TRUE, [type |-> "ValueError",
                                        msg |-> <<"list.remove(x):", "x", "not", "in",
                                                  "list">>],
                                 NoValue, "None"),
                    NoCalc, Quiet, performed)
        /\ UNCHANGED <<heap, history, undo_stack, redo_stack, operation_strategy, config,
                       operations, history_file>>

\* a caller takes get_state() of the i-th memento of a stack and clears the list
\* it got
caller_get_state(stack, i) ==
    LET g == get_state(heap, stack[i])
    IN  /\ i \in DOMAIN stack
        /\ Installed([g.heap EXCEPT ![g.ref] = <<>>], history, undo_stack, redo_stack)
        /\ Recorded(Outcome("get_state", NoArgs, FALSE, NoError, NoValue, "None"),
                    NoCalc, Quiet, performed)
        /\ UNCHANGED <<operation_strategy, observers, config, operations, history_file>>

(***************************************************************************)
(* The session: a fresh calculator with no history file, driven through    *)
(* set_operation, perform_operation, undo, redo and clear_history.         *)
(***************************************************************************)
DefaultConfig == CalculatorConfig(NoConfigArgs, Environment)

SessionNames == {"add", "divide"}

SessionOperands == {RawNum(0), RawNum(2)}

Init == Constructed(NoFile, DefaultConfig) /\ History_init /\ Caretaker_init /\ repl = NoRepl

Next ==
    \/ \E name \in SessionNames : set_operation(name)
    \/ /\ Len(undo_stack) + Len(redo_stack) < MaxUndoDepth
       /\ \E a \in {RawNum(2)}, b \in SessionOperands : perform_operation(a, b, TRUE)
    \/ undo
    \/ redo
    \/ clear_history
    \/ \E i \in DOMAIN undo_stack : caller_get_state(undo_stack, i)
    \/ \E i \in DOMAIN redo_stack : caller_get_state(redo_stack, i)

Spec == Init /\ [][Next]_vars

(***************************************************************************)
(* Properties of the undo/redo session.                                    *)
(***************************************************************************)
Succeeded(o, call) == o.call = call /\ ~o.raised /\ o.ret # "False"

StacksUnchanged == UNCHANGED <<heap, history, undo_stack, redo_stack>>

\* C1: an undo() that directly follows a successful perform_operation returns
\* True and leaves the history exactly as it was before that operation, and a
\* redo() that directly follows that undo() returns True and leaves the history
\* exactly as the operation had left it, also when the operation evicted the
\* oldest record.
C1_UndoRedoRoundTrip ==
    [][ /\ (Succeeded(outcome, "perform_operation") /\ outcome'.call = "undo")
            => (outcome'.ret = "True" /\ H' = h_before)
        /\ (Succeeded(outcome, "undo") /\ outcome'.call = "redo")
            => (outcome'.ret = "True" /\ H' = h_before) ]_vars

\* perform, undo, redo in a row, where the operation evicted the oldest record
C1_Witness ==
    /\ recent = <<Call("undo", TRUE), Call("redo", TRUE)>>
    /\ Len(h_before) = config.max_history_size
    /\ Len(H) = config.max_history_size
    /\ Tail(h_before) = Front(H)
    /\ h_before[1] # Last(H)

\* C2: every successful perform_operation leaves the redo stack empty, and a
\* redo() that directly follows it returns False and changes neither the
\* history nor the stacks.
C2_NewOperationClearsRedo ==
    [][ /\ Succeeded(outcome', "perform_operation") => redo_stack' = <<>>
        /\ (Succeeded(outcome, "perform_operation") /\ outcome'.call = "redo")
            => (outcome'.ret = "False" /\ ~outcome'.raised /\ StacksUnchanged) ]_vars

\* undo, then a new operation, then a redo that finds nothing
C2_Witness ==
    /\ recent = <<Call("perform_operation", TRUE), Call("redo", FALSE)>>
    /\ redo_stack = <<>>
    /\ H = h_before
    /\ H # <<>>

\* C3: undo() on an empty undo stack and redo() on an empty redo stack raise a
\* HistoryError and change neither the history nor the stacks.
C3_EmptyUndoRedoRaise ==
    [][ /\ (undo_stack = <<>> /\ outcome'.call = "undo")
            => (outcome'.raised /\ outcome'.err.type = "HistoryError" /\ StacksUnchanged)
        /\ (redo_stack = <<>> /\ outcome'.call = "redo")
            => (outcome'.raised /\ outcome'.err.type = "HistoryError" /\ StacksUnchanged)
      ]_vars

\* C5: after n successful operations in a row from an empty history, the
\* history holds the last min(n, max_history_size) records in the order they
\* were performed.
C5_FifoEviction ==
    performed.valid =>
        LET n == Len(performed.recs)
            m == config.max_history_size
        IN  H = SubSeq(performed.recs, IF n > m THEN n - m + 1 ELSE 1, n)

\* more operations than the history holds, the evicted record differing from
\* the ones kept
C5_Witness ==
    /\ performed.valid
    /\ Len(performed.recs) > config.max_history_size
    /\ performed.recs[1] \notin Range(H)
    /\ H[1] # Last(H)

NoAlias ==
    LET held == <<history>> \o undo_stack \o redo_stack
    IN  \A i, j \in DOMAIN held : i # j => held[i] # held[j]

SnapshotsKept ==
    /\ \A i \in DOMAIN undo_stack \cap DOMAIN undo_stack' :
           heap'[undo_stack'[i]] = heap[undo_stack[i]]
    /\ \A i \in DOMAIN redo_stack \cap DOMAIN redo_stack' :
           heap'[redo_stack'[i]] = heap[redo_stack[i]]

\* C8: after every step the live history and the mementos of both stacks are
\* pairwise different list objects, and no step, whether it mutates the live
\* history or a list a caller got from get_state(), changes the contents of a
\* memento that stays on its stack.
C8_SnapshotsNotAliased == [][NoAlias' /\ SnapshotsKept]_vars

\* a caller cleared the list it got from a memento that holds records, after
\* the live history had been appended to
C8_Witness ==
    /\ outcome.call = "get_state"
    /\ recent[1] = Call("perform_operation", TRUE)
    /\ Len(undo_stack) >= 2
    /\ heap[Last(undo_stack)] # <<>>
    /\ heap[Last(undo_stack)] # H

DepthStep ==
    LET u == Len(undo_stack)
        r == Len(redo_stack)
        u2 == Len(undo_stack')
        r2 == Len(redo_stack')
    IN  /\ outcome.call = "__init__" => (u = 0 /\ r = 0)
        /\ Succeeded(outcome', "perform_operation") => (u2 = u + 1 /\ r2 = 0)
        /\ outcome'.call = "undo" =>
              /\ outcome'.ret = "True" <=> u >= 1
              /\ IF u >= 1 THEN u2 = u - 1 /\ r2 = r + 1 ELSE u2 = u /\ r2 = r
        /\ outcome'.call = "redo" =>
              /\ outcome'.ret = "True" <=> r >= 1
              /\ IF r >= 1 THEN u2 = u + 1 /\ r2 = r - 1 ELSE u2 = u /\ r2 = r

\* C9: the depths of the stacks start at (0, 0); a successful perform_operation
\* takes (u, r) to (u + 1, 0); undo() returns True exactly when u >= 1 and then
\* takes (u, r) to (u - 1, r + 1); redo() returns True exactly when r >= 1 and
\* then takes (u, r) to (u + 1, r - 1); a refused undo() or redo() leaves the
\* depths alone.
C9_DepthStateMachine == [][DepthStep]_vars

\* a redo that moved a memento back while both stacks held one
C9_Witness ==
    /\ recent = <<Call("undo", TRUE), Call("redo", TRUE)>>
    /\ Len(undo_stack) = 2
    /\ Len(redo_stack) = 1

(***************************************************************************)
(* The operations one by one: every command name of the REPL, set and      *)
(* performed on a fresh calculator.                                        *)
(***************************************************************************)
OpsOperands == {RawNum(0), RawNum(2)}

NextOps ==
    \/ \E name \in CommandNames : set_operation(name)
    \/ \E a \in OpsOperands, b \in OpsOperands :
          /\ IF operation_strategy = "None" THEN TRUE
             ELSE \/ Len(undo_stack) < MaxOpsDepth
                  \/ ~try_operation(operation_strategy, a, b, config).ok
          /\ perform_operation(a, b, TRUE)
    \/ clear_history

SpecOps == Init /\ [][NextOps]_vars

ZeroChecked == {"Division", "Modulus", "IntegerDivision", "Percentage"}

\* perform_operation(a, 0) with a valid a and a strategy that wants b # 0
ZeroDivisorCall ==
    /\ outcome'.call = "perform_operation"
    /\ operation_strategy \in ZeroChecked
    /\ validate_number(outcome'.args.a, config).ok
    /\ outcome'.args.b = RawNum(0)

Mentions(msg, words) ==
    \E i \in DOMAIN msg :
        i + Len(words) - 1 <= Len(msg) /\ SubSeq(msg, i, i + Len(words) - 1) = words

\* C6 as the specification words it: divide, modulus, int_divide and percent
\* with b = 0 raise an error whose message has the word "zero", build no
\* Calculation record and leave the history and the stacks unchanged.
C6_ZeroDivisorSaysZero ==
    [][ ZeroDivisorCall =>
            /\ outcome'.raised
            /\ Mentions(outcome'.err.msg, <<"zero">>)
            /\ created' = NoCalc
            /\ StacksUnchanged ]_vars

\* C6: divide, modulus, int_divide and percent with b = 0 raise a
\* ValidationError that names the zero divisor, as "zero" for divide and
\* int_divide and as "divisor 0" for modulus and percent, build no Calculation
\* record and leave the history and the stacks unchanged.
C6_ZeroDivisorRejected ==
    [][ ZeroDivisorCall =>
            /\ outcome'.raised
            /\ outcome'.err.type = "ValidationError"
            /\ IF operation_strategy \in {"Division", "IntegerDivision"}
               THEN Mentions(outcome'.err.msg, <<"by", "zero">>)
               ELSE Mentions(outcome'.err.msg, <<"divisor", "0">>)
            /\ created' = NoCalc
            /\ StacksUnchanged ]_vars

\* modulus by zero was refused on a history that holds a record
C6_Witness ==
    /\ outcome.call = "perform_operation"
    /\ operation_strategy = "Modulus"
    /\ outcome.args.b = RawNum(0)
    /\ outcome.raised
    /\ Mentions(outcome.err.msg, <<"divisor", "0">>)
    /\ H # <<>>
    /\ H = h_before

\* perform_operation(a, b) with a >= 0 and b > 0 in range, a strategy being set
ValidCall ==
    /\ outcome'.call = "perform_operation"
    /\ operation_strategy \in OperationClasses
    /\ validate_number(outcome'.args.a, config).ok
    /\ validate_number(outcome'.args.b, config).ok
    /\ outcome'.args.a.n >= 0
    /\ outcome'.args.b.n > 0

\* C7: with any of the ten built-in operations set, perform_operation(a, b)
\* with valid operands a >= 0 and b > 0 returns what the operation's execute
\* gives and appends exactly one record of that operation to the history.
C7_EveryOperationPerforms ==
    [][ ValidCall =>
            LET a == validate_number(outcome'.args.a, config).val
                b == validate_number(outcome'.args.b, config).val
            IN  /\ ~outcome'.raised
                /\ outcome'.val = execute(operation_strategy, a, b).val
                /\ created'.operation = operation_strategy
                /\ H' = append_and_prune(H, created', config.max_history_size) ]_vars

(***************************************************************************)
(* The session with its history file and its observers: the calculator is  *)
(* constructed over a file that is missing, empty, valid or damaged, and   *)
(* saves, loads and notifies while it computes.                            *)
(***************************************************************************)
SampleCalc(i) == Calculation("Addition", DInt(2), DInt(2 * (i % 2))).calc

SampleRows(k) == [i \in 1..k |-> to_row(SampleCalc(i))]

InitialFiles ==
    {NoFile}
    \cup {[exists |-> TRUE, rows |-> SampleRows(k)] : k \in 0..(MaxHistorySize + 1)}
    \cup {[exists |-> TRUE,
           rows |-> <<[to_row(SampleCalc(1)) EXCEPT !.operand1 = JunkCell]>>]}

ObserverKinds == {"LoggingObserver", "AutoSaveObserver"}

InitIO == (\E file \in InitialFiles : Constructed(file, DefaultConfig)) /\ History_init /\ Caretaker_init /\ repl = NoRepl

NextIO ==
    \/ set_operation("add")
    \/ /\ Len(undo_stack) + Len(redo_stack) < MaxIODepth
       /\ perform_operation(RawNum(2), RawNum(2), TRUE)
    \/ undo
    \/ redo
    \/ clear_history
    \/ \E io_ok \in BOOLEAN : save_history(io_ok)
    \/ \E io_ok \in BOOLEAN : load_history(io_ok)

SpecIO == InitIO /\ [][NextIO]_vars

\* C4: the live history never holds more than config.max_history_size records,
\* whatever perform_operation, undo, redo, clear_history, load_history and
\* save_history did, the load at construction included.
C4_HistoryBounded == Len(H) <= config.max_history_size

(***************************************************************************)
(* The session with observers: any of the two observer classes registered  *)
(* and unregistered while the calculator computes; the automatic save of   *)
(* the AutoSaveObserver succeeds or fails.                                 *)
(***************************************************************************)
InitObs ==
    /\ \E auto \in BOOLEAN :
          Constructed(NoFile, [DefaultConfig EXCEPT !.auto_save = auto])
    /\ History_init /\ Caretaker_init /\ repl = NoRepl

NextObs ==
    \/ set_operation("add")
    \/ /\ Len(undo_stack) + Len(redo_stack) < MaxIODepth
       /\ \E b \in SessionOperands, io_ok \in BOOLEAN :
             perform_operation(RawNum(2), b, io_ok)
    \/ undo
    \/ \E observer \in ObserverKinds :
          /\ observer \notin Range(observers)
          /\ add_observer(observer)
    \/ \E observer \in ObserverKinds : remove_observer(observer)

SpecObs == InitObs /\ [][NextObs]_vars

\* C10: once perform_operation has built its record, no observer can make it
\* fail: it returns the result, the record is the last of the history, the
\* memento of the previous history is on top of the undo stack, and every
\* registered observer was notified, in order, whether or not one before it
\* raised.
C10_ObserverFailuresContained ==
    [][ (outcome'.call = "perform_operation" /\ created' # NoCalc) =>
            /\ ~outcome'.raised
            /\ outcome'.val = created'.result
            /\ Last(H') = created'
            /\ Len(undo_stack') = Len(undo_stack) + 1
            /\ heap'[Last(undo_stack')] = H
            /\ notified' = observers ]_vars

\* the first observer raised, the second, whose save failed, raised too, and
\* the operation went through
C10_Witness ==
    /\ outcome.call = "perform_operation"
    /\ ~outcome.raised
    /\ observers = <<"LoggingObserver", "AutoSaveObserver">>
    /\ notified = observers
    /\ warnings = Len(observers)
    /\ Last(H) = created
    /\ heap[Last(undo_stack)] = h_before

(***************************************************************************)
(* The session on files left by earlier sessions: whole files, files whose *)
(* stored result was changed, and damaged files.  The user adds whole      *)
(* numbers and decimal fractions, saves, loads and clears.                 *)
(***************************************************************************)
Earlier == "earlier"

StoredRow(i) == to_row([SampleCalc(i) EXCEPT !.timestamp = Earlier])

\* a row whose stored result is not what its operation gives
ChangedRow == [StoredRow(1) EXCEPT !.result = str_decimal(DInt(9))]

\* rows from_dict cannot read: an operand that is no number, a file without
\* the timestamp column, an operation Calculation does not know
JunkRow == [StoredRow(1) EXCEPT !.operand2 = JunkCell]

ShortRow == [StoredRow(1) EXCEPT !.timestamp = MissingCell]

UnknownRow == [StoredRow(1) EXCEPT !.operation = "Unknown"]

StoredFiles ==
    {NoFile}
    \cup {[exists |-> TRUE, rows |-> rows] :
            rows \in {<<>>, <<StoredRow(1), StoredRow(2)>>,
                      <<StoredRow(2), ChangedRow>>, <<StoredRow(1), JunkRow>>,
                      <<ShortRow>>, <<UnknownRow, StoredRow(1)>>,
                      <<ChangedRow, JunkRow>>}}

FileOperands == {RawNum(2), RawDec(1, 10)}

InitFile == (\E file \in StoredFiles : Constructed(file, DefaultConfig)) /\ History_init /\ Caretaker_init /\ repl = NoRepl

NextFile ==
    \/ set_operation("add")
    \/ /\ Len(undo_stack) < MaxFileDepth
       /\ \E a \in FileOperands : perform_operation(a, RawNum(2), TRUE)
    \/ clear_history
    \/ \E io_ok \in BOOLEAN : save_history(io_ok)
    \/ \E io_ok \in BOOLEAN : load_history(io_ok)

SpecFile == InitFile /\ [][NextFile]_vars

\* two lists hold the same number of records, equal one by one in the same
\* order under Calculation.__eq__
SameRecords(a, b) ==
    /\ Len(a) = Len(b)
    /\ \A i \in 1..Len(a) : Calculation_eq(a[i], b[i])

StoreCalcs ==
    {Calculation("Addition", DInt(2), DInt(2)).calc,
     Calculation("Addition", Q(1, 10, "exact"), DInt(2)).calc}

InitStore == (\E file \in StoredFiles : Constructed(file, DefaultConfig)) /\ History_init /\ Caretaker_init /\ repl = NoRepl

NextStore ==
    \/ /\ Len(records) < MaxStoreLen
       /\ \E calculation \in StoreCalcs \cup {NotACalculation} :
             History_append(calculation)
    \/ History_clear
    \/ \E io_ok \in BOOLEAN : History_save(io_ok)
    \/ \E io_ok \in BOOLEAN : History_load(io_ok)

SpecStore == InitStore /\ [][NextStore]_vars

\* C12: a load that succeeds on an existing file leaves as the history exactly
\* the records deserialized from the rows of the file, in file order, whatever
\* the history held before; a file with no row leaves the history empty.
C12_LoadInstallsFileRecords ==
    [][ ( /\ outcome'.call = "load_history"
          /\ ~outcome'.raised
          /\ history_file.exists ) =>
            H' = [i \in DOMAIN history_file.rows |->
                     deserialized(history_file.rows)[i].calc] ]_vars

\* C13: when the history file does not exist, a load raises nothing and
\* leaves the history empty, whatever it held before.
C13_MissingFileLoadsEmpty ==
    [][ (outcome'.call = "load_history" /\ ~history_file.exists) =>
            (~outcome'.raised /\ H' = <<>>) ]_vars

Readable(row) ==
    /\ row.operand1.kind = "num"
    /\ row.operand2.kind = "num"
    /\ row.result.kind = "num"
    /\ row.timestamp.kind = "iso"
    /\ calculate(row.operation, read_cell(row.operand1), read_cell(row.operand2)).ok

\* the record has the result its operation gives for its operands
Recomputed(c) == c.result = calculate(c.operation, c.operand1, c.operand2).val

\* C15: a stored result that differs from the recomputed one does not make
\* deserialization fail: every readable row gives a record, a warning is
\* logged exactly for the rows whose stored result differs, the record carries
\* the recomputed result and the stored timestamp; so after a load that
\* installed a file every record has the result of its operation on its
\* operands.
C15_LoadRecomputesResults ==
    [][ outcome'.call = "load_history" =>
          /\ \A i \in DOMAIN history_file.rows :
                Readable(history_file.rows[i]) =>
                   /\ from_dict(history_file.rows[i]).ok
                   /\ Recomputed(from_dict(history_file.rows[i]).calc)
                   /\ from_dict(history_file.rows[i]).calc.timestamp =
                         fromisoformat(history_file.rows[i].timestamp)
                   /\ from_dict(history_file.rows[i]).warned <=>
                         (read_cell(history_file.rows[i].result) #
                             from_dict(history_file.rows[i]).calc.result)
          /\ (~outcome'.raised /\ history_file.exists /\ history_file.rows # <<>>) =>
                /\ Len(H') = Len(history_file.rows)
                /\ \A i \in DOMAIN H' :
                      /\ Recomputed(H'[i])
                      /\ H'[i].timestamp = fromisoformat(history_file.rows[i].timestamp)
                /\ warnings' = Cardinality({i \in DOMAIN H' :
                                  read_cell(history_file.rows[i].result) # H'[i].result}) ]_vars

\* a file whose second row stores 9 as the result of 2 + 2 was loaded: the
\* load succeeded with one warning and the record holds 4 and the stored
\* timestamp
C15_Witness ==
    /\ outcome.call = "load_history"
    /\ ~outcome.raised
    /\ history_file.exists
    /\ Len(history_file.rows) = 2
    /\ history_file.rows[2] = ChangedRow
    /\ warnings = 1
    /\ Len(H) = 2
    /\ H[2].result = DInt(4)
    /\ read_cell(history_file.rows[2].result) = DInt(9)
    /\ H[2].timestamp = Earlier

(***************************************************************************)
(* The operation factory: classes are registered under new and under       *)
(* existing names, and names are looked up in several spellings.           *)
(***************************************************************************)
RegisterNames == {"new_op", "NEW_OP", " new_op ", "add"}

RegisterClasses == {"NewOp", "Subtraction", "Invalid"}

LookupNames ==
    {"add", "ADD", " add ", "subtract", "Addition", "IntegerDivision", "new_op",
     "NEW_OP", " new_op ", " NEW_OP ", "NewOp", "invalid_op"}

NextReg ==
    \/ \E name \in RegisterNames, operation_class \in RegisterClasses :
          register_operation(name, operation_class)
    \/ \E operation_type \in LookupNames :
          OperationFactory_create_operation(operation_type)
    \/ \E name \in {"new_op", "NewOp", "invalid_op"} : set_operation(name)

SpecReg == Init /\ [][NextReg]_vars

\* C16 as stated: create_operation(name) succeeds exactly when the normalized
\* name is a registered key, and fails otherwise with an unknown-operation
\* error that carries the name.
C16_CreateIffRegisteredKey ==
    [][ outcome'.call = "create_operation" =>
          /\ ~outcome'.raised <=> lower_strip(outcome'.args.name) \in DOMAIN operations
          /\ outcome'.raised =>
                /\ outcome'.err.type = "ValueError"
                /\ outcome'.err.msg =
                      <<"Unknown", "operation", ":", lower_strip(outcome'.args.name)>> ]_vars

\* the classes the registry holds
RegisteredClasses == {operations[k] : k \in DOMAIN operations}

\* C16 amended: create_operation(name) succeeds exactly when the normalized
\* name is a registered key or the lower-cased name of a registered class; a
\* key gives the class registered under it, a class name that class; every
\* other name fails with an unknown-operation error that carries the
\* normalized name.
C16_CreateIffKeyOrClassName ==
    [][ outcome'.call = "create_operation" =>
          LET key == lower_strip(outcome'.args.name)
          IN  /\ ~outcome'.raised <=>
                    \/ key \in DOMAIN operations
                    \/ \E cls \in RegisteredClasses : class_name_lower(cls) = key
              /\ (~outcome'.raised /\ key \in DOMAIN operations) =>
                    outcome'.ret = operations[key]
              /\ (~outcome'.raised /\ key \notin DOMAIN operations) =>
                    /\ outcome'.ret \in RegisteredClasses
                    /\ class_name_lower(outcome'.ret) = key
              /\ outcome'.raised =>
                    /\ outcome'.err.type = "ValueError"
                    /\ outcome'.err.msg = <<"Unknown", "operation", ":", key>>
              /\ operations' = operations ]_vars

\* create_operation("Addition") returned an Addition although "addition" is
\* no key of the registry
C16_Witness ==
    /\ outcome.call = "create_operation"
    /\ outcome.args.name = "Addition"
    /\ ~outcome.raised
    /\ outcome.ret = "Addition"
    /\ lower_strip(outcome.args.name) \notin DOMAIN operations

\* the spellings of a name that differ from it in letter case only
CaseVariants(name) ==
    CASE name \in {"new_op", "NEW_OP"} -> {"new_op", "NEW_OP"}
      [] name \in {" new_op ", " NEW_OP "} -> {" new_op ", " NEW_OP "}
      [] name \in {"add", "ADD"} -> {"add", "ADD"}
      [] OTHER -> {name}

\* C17: after register_operation(name, cls) has registered cls,
\* create_operation of that name in any letter case returns an instance of
\* cls, also when the name was registered with another class before; every
\* other registered name resolves as before.
C17_RegisteredNameResolves ==
    [][ (outcome'.call = "register_operation" /\ ~outcome'.raised) =>
          /\ \A v \in CaseVariants(outcome'.args.name) :
                /\ create_operation(operations', v).ok
                /\ create_operation(operations', v).cls = outcome'.args.cls
          /\ \A k \in DOMAIN operations :
                k # lower(outcome'.args.name) =>
                   create_operation(operations', k) = create_operation(operations, k) ]_vars

\* C18: registering a class that is not an Operation fails at registration
\* time with a TypeError and leaves the registry as it was.
C18_NonOperationRejected ==
    [][ (outcome'.call = "register_operation" /\ ~issubclass_Operation(outcome'.args.cls)) =>
          /\ outcome'.raised
          /\ outcome'.err.type = "TypeError"
          /\ operations' = operations
          /\ \A name \in LookupNames :
                create_operation(operations', name) = create_operation(operations, name) ]_vars

\* Invalid was offered under a new name to a registry that had already taken
\* NewOp: the call raised and the name is still unknown
C18_Witness ==
    /\ outcome.call = "register_operation"
    /\ outcome.args.cls = "Invalid"
    /\ outcome.args.name = "new_op"
    /\ outcome.raised
    /\ outcome.err.type = "TypeError"
    /\ " new_op " \in DOMAIN operations
    /\ "new_op" \notin DOMAIN operations

(***************************************************************************)
(* The session on operands of every kind: None, blank text, text that is   *)
(* no number, and numbers at and just beyond the configured limit.         *)
(***************************************************************************)
ValidOperands ==
    {RawNone, RawBlank, RawJunk,
     RawNum(MaxInputValue), RawNum(-MaxInputValue),
     RawNum(-(MaxInputValue + 1)), RawDec(2 * MaxInputValue + 1, 2)}

NextValid ==
    \/ \E name \in SessionNames : set_operation(name)
    \/ \E a \in ValidOperands, b \in ValidOperands :
          /\ IF operation_strategy = "None" THEN TRUE
             ELSE \/ Len(undo_stack) < MaxOpsDepth
                  \/ ~try_operation(operation_strategy, a, b, config).ok
          /\ perform_operation(a, b, TRUE)
    \/ clear_history

SpecValid == Init /\ [][NextValid]_vars

\* the operand is None, blank, no number, or beyond the limit in absolute value
Rejected(value, cfg) ==
    \/ value.kind # "num"
    \/ Abs(value.n) > cfg.max_input_value * value.d

\* the operand is a number whose absolute value is exactly the limit
AtLimit(value, cfg) ==
    value.kind = "num" /\ Abs(value.n) = cfg.max_input_value * value.d

AllEmpty(h, us, rs) == h = <<>> /\ us = <<>> /\ rs = <<>>

\* C20: clear_history() leaves the history, the undo stack and the redo
\* stack empty, whatever they held; an undo() or redo() right after it finds
\* nothing and changes nothing; a second clear_history() leaves the same empty
\* state.
C20_ClearEmptiesEverything ==
    [][ /\ outcome'.call = "clear_history" =>
              /\ ~outcome'.raised
              /\ AllEmpty(H', undo_stack', redo_stack')
        /\ (outcome.call = "clear_history" /\ outcome'.call \in {"undo", "redo"}) =>
              /\ outcome'.ret = "False"
              /\ AllEmpty(H', undo_stack', redo_stack')
        /\ (outcome.call = "clear_history" /\ outcome'.call = "clear_history") =>
              /\ UNCHANGED <<heap, history, undo_stack, redo_stack>>
              /\ UNCHANGED <<operation_strategy, observers, config, history_file>> ]_vars

\* a clear found a record in the history and mementos on both stacks, and
\* left nothing
C20_Witness ==
    /\ outcome.call = "clear_history"
    /\ h_before # <<>>
    /\ depth_before[1] > 0
    /\ depth_before[2] > 0
    /\ AllEmpty(H, undo_stack, redo_stack)

(***************************************************************************)
(* The command loop (app/calculator_repl.py): calculator_repl() builds a   *)
(* Calculator and passes every line typed at the prompt to                 *)
(* _perform_command, which calls the Calculator; input_func returns a      *)
(* line or raises EOFError or KeyboardInterrupt.                           *)
(***************************************************************************)
MaxReplDepth == 1

\* what input_func gives: a command line, a number typed as an operand, or an
\* exception
Line(text) == [ev |-> "line", text |-> text, raw |-> RawNone]

Typed(raw) == [ev |-> "line", text |-> "", raw |-> raw]

\* a word typed where a number is asked for
TypedWord(text) == [ev |-> "line", text |-> text, raw |-> RawJunk]

Raised(exception) == [ev |-> exception, text |-> "", raw |-> RawNone]

\* what the loop prints when input_func raises KeyboardInterrupt, and EOFError
CtrlC == Printed("warn", <<"Operation", "cancelled", "(", "Ctrl+C", ")">>)

CtrlD == Printed("warn", <<"Input", "terminated", "(", "Ctrl+D", ")">>)

\* what _perform_command prints when a number prompt is answered with cancel
Cancelled == Printed("warn", <<"Operation", "cancelled", ".">>)

\* the loop breaks on KeyboardInterrupt and on EOFError at the prompt
loop_breaks(r, exception) ==
    [r EXCEPT !.pc = "returned",
              !.printed = IF exception = "KeyboardInterrupt" THEN CtrlC ELSE CtrlD]

\* _perform_command(calc, command, input_func) up to its first call on the
\* Calculator; in1 and in2 are what input_func gives when it is asked for the
\* two numbers
_perform_command(r, command, in1, in2) ==
    LET r0 == [r EXCEPT !.command = command, !.num1 = RawNone, !.num2 = RawNone,
                        !.typed = <<>>, !.printed = NothingPrinted,
                        !.returned = "None"]
        r1 == [r0 EXCEPT !.num1 = in1.raw, !.typed = <<in1.text>>]
        r2 == [r1 EXCEPT !.num2 = in2.raw, !.typed = <<in1.text, in2.text>>]
    IN  CASE command \in CommandNames ->
                IF in1.ev = "KeyboardInterrupt" THEN loop_breaks(r0, in1.ev)
                ELSE IF in1.ev # "line" THEN returns(r0, except_clause(in1.ev), "True")
                ELSE IF cancels(in1.text) THEN returns(r1, Cancelled, "True")
                ELSE IF in2.ev = "KeyboardInterrupt" THEN loop_breaks(r1, in2.ev)
                ELSE IF in2.ev # "line" THEN returns(r1, except_clause(in2.ev), "True")
                ELSE IF cancels(in2.text) THEN returns(r2, Cancelled, "True")
                ELSE [r2 EXCEPT !.pc = "set_operation"]
          [] command = "history" ->
                returns(r0, IF H = <<>> THEN Printed("warn", <<"No", "calculations", "yet", ".">>)
                            ELSE Printed("info", <<"Calculation", "History", ":">>), "True")
          [] command = "clear" -> [r0 EXCEPT !.pc = "clear_history"]
          [] command = "undo" -> [r0 EXCEPT !.pc = "undo"]
          [] command = "redo" -> [r0 EXCEPT !.pc = "redo"]
          [] command = "save" -> [r0 EXCEPT !.pc = "save_history"]
          [] command = "load" -> [r0 EXCEPT !.pc = "load_history"]
          [] command = "help" -> returns(r0, Printed("info", <<"Available", "commands", ":">>), "True")
          [] command = "exit" -> [r0 EXCEPT !.pc = "save_history"]
          [] OTHER -> returns(r0, Printed("error", <<"Unknown", "command", ":">>), "True")

\* one pass of the loop of calculator_repl(): the prompt is answered by cmd
REPL_prompt(cmd, in1, in2) ==
    /\ repl.pc = "prompt"
    /\ repl' = IF cmd.ev = "line"
               THEN _perform_command(repl, lower_strip(cmd.text), in1, in2)
               ELSE loop_breaks([repl EXCEPT !.typed = <<>>], cmd.ev)
    /\ UNCHANGED <<heap, history, undo_stack, redo_stack, operation_strategy,
                   observers, config, operations, history_file, outcome, recent,
                   depth_before, h_before, created, notified, warnings, performed,
                   records, caretaker, caretaker_result>>

\* calculator_repl() up to its first prompt
calculator_repl(file, cfg) ==
    /\ Constructed(file, cfg)
    /\ repl = [NoRepl EXCEPT !.pc = "prompt",
                             !.printed = Printed("info", <<"Calculator", "started", ".">>)]

ReplCommands ==
    {"divide", "history", "clear", "undo", "redo", "save", "load", "help",
     "exit", " Exit ", "bogus"}

\* what is typed for the first and for the second number
ReplFirst ==
    {Typed(RawNum(2)), Typed(RawJunk), TypedWord("CANCEL"), Raised("KeyboardInterrupt")}

ReplSecond == {Typed(RawNum(2)), Typed(RawNum(0)), TypedWord(" cancel "), Raised("EOFError")}

\* the answers to the number prompts: only an arithmetic command asks
Asked(cmd, answers) ==
    IF cmd.ev = "line" /\ lower_strip(cmd.text) \in CommandNames THEN answers
    ELSE {Typed(RawNone)}

InitRepl ==
    /\ \E file \in {NoFile} :
          calculator_repl(file, DefaultConfig)
    /\ History_init /\ Caretaker_init

NextRepl ==
    \/ /\ Len(undo_stack) + Len(redo_stack) < MaxReplDepth
       /\ \E cmd \in {Line(c) : c \in ReplCommands}
                     \cup {Raised("EOFError"), Raised("KeyboardInterrupt")} :
             \E in1 \in Asked(cmd, ReplFirst), in2 \in Asked(cmd, ReplSecond) :
                REPL_prompt(cmd, in1, in2)
    \/ /\ Len(undo_stack) + Len(redo_stack) >= MaxReplDepth
       /\ \E cmd \in {Line(c) : c \in ReplCommands} :
             \E in1 \in Asked(cmd, ReplFirst),
                in2 \in Asked(cmd, {in \in ReplSecond : in.raw.kind # "num"}) :
                REPL_prompt(cmd, in1, in2)
    \/ repl.pc = "set_operation" /\ set_operation(repl.command)
    \/ /\ repl.pc = "perform_operation"
       /\ \E io_ok \in BOOLEAN : perform_operation(repl.num1, repl.num2, io_ok)
    \/ repl.pc = "clear_history" /\ clear_history
    \/ repl.pc = "undo" /\ undo
    \/ repl.pc = "redo" /\ redo
    \/ repl.pc = "save_history" /\ \E io_ok \in BOOLEAN : save_history(io_ok)
    \/ repl.pc = "load_history" /\ \E io_ok \in BOOLEAN : load_history(io_ok)

SpecRepl == InitRepl /\ [][NextRepl]_vars

\* C21: the exit command always attempts save_history() and then ends the
\* loop: a prompt answered with exit leads to the call of save_history(), and
\* whether that call returns or raises, _perform_command returns False and
\* calculator_repl() returns.
C21_ExitSavesThenEnds ==
    [][ /\ (repl.pc = "prompt" /\ repl' # repl /\ repl'.command = "exit")
            => repl'.pc = "save_history"
        /\ (repl.pc = "save_history" /\ repl.command = "exit")
            => /\ outcome'.call = "save_history"
               /\ repl'.pc = "returned"
               /\ repl'.returned = "False" ]_vars

\* exit was typed, the save raised, and the loop has ended
C21_Witness ==
    /\ repl.command = "exit"
    /\ outcome.call = "save_history" /\ outcome.raised
    /\ repl.pc = "returned" /\ repl.returned = "False"

\* the commands _perform_command knows, exit apart
KnownCommands ==
    CommandNames \cup {"history", "clear", "undo", "redo", "save", "load", "help"}

\* the loop has been broken by an exception of input_func
Interrupted(r) == r.pc = "returned" /\ r.printed \in {CtrlC, CtrlD}

\* C22: no command error ends the session: for every command other than
\* exit, a step of the loop that is not an interrupt of the input leaves the
\* loop running; when the command is over _perform_command has returned True,
\* and an unknown command or a Calculator call that raised has been reported
\* as an error.
C22_ErrorsKeepLoopRunning ==
    [][ (repl.pc \notin {"off", "returned"} /\ repl' # repl
            /\ repl'.command # "exit" /\ ~Interrupted(repl'))
        => /\ repl'.pc # "returned"
           /\ repl'.pc = "prompt"
                => /\ repl'.returned = "True"
                   /\ (repl.pc # "prompt" /\ outcome'.raised)
                        => repl'.printed.kind = "error"
                   /\ repl'.command \notin KnownCommands
                        => repl'.printed = Printed("error", <<"Unknown", "command", ":">>) ]_vars

\* an arithmetic command raised, the error was printed by the except clause
\* of its type, and the loop is at the prompt again
C22_Witness ==
    /\ repl.command \in CommandNames
    /\ outcome.call = "perform_operation" /\ outcome.raised
    /\ repl.printed = except_clause(outcome.err.type)
    /\ repl.pc = "prompt" /\ repl.returned = "True"

(***************************************************************************)
(* Construction from a configuration the caller builds: every setting is   *)
(* left out or given, with positive, zero and negative values, and the     *)
(* calculator that results is used.                                        *)
(***************************************************************************)
\* Calculator(CalculatorConfig(args)): validate() raises before any field is set
Calculator_new(args, env, file) ==
    LET cfg == CalculatorConfig(args, env)
        v == validate(cfg)
    IN  IF v.ok
        THEN Calculator_init(file, cfg, load_file(file, TRUE),
                             Outcome("__init__", args, FALSE, NoError, NoValue, "None"))
        ELSE Calculator_init(NoFile, cfg, load_file(NoFile, TRUE),
                             Outcome("__init__", args, TRUE, v.err, NoValue, "None"))

\* Calculator(...) returned a calculator
constructed == ~(outcome.call = "__init__" /\ outcome.raised)

ConfigNumbers == {NotGiven, Given(-1), Given(0), Given(1), Given(MaxInputValue)}

ConfigArgs ==
    {[NoConfigArgs EXCEPT !.max_history_size = m, !.precision = p,
                          !.max_input_value = v, !.default_encoding = e] :
        m \in ConfigNumbers, p \in ConfigNumbers, v \in ConfigNumbers,
        e \in {NoText, Given("latin-99")}}

InitConfig ==
    /\ \E args \in ConfigArgs : Calculator_new(args, Environment, NoFile)
    /\ History_init /\ Caretaker_init /\ repl = NoRepl

NextConfig ==
    \/ constructed /\ set_operation("add")
    \/ /\ constructed /\ Len(undo_stack) < MaxHistorySize
       /\ \E a \in {RawNum(1), RawNum(MaxInputValue)} : perform_operation(a, RawNum(1), TRUE)
    \/ constructed /\ undo

SpecConfig == InitConfig /\ [][NextConfig]_vars

\* the numeric settings of the configuration
NumericSettings == {"max_history_size", "precision", "max_input_value"}

\* C23: the configuration is validated before use and fails fast: when a
\* non-positive value, zero or negative, is supplied for max_history_size,
\* precision or max_input_value, the construction of the Calculator fails
\* with a configuration error, and a calculator that was constructed holds
\* every value supplied.
C23_NonPositiveSettingRejected ==
    outcome.call = "__init__"
        => \A setting \in NumericSettings :
              LET supplied == outcome.args[setting]
              IN  /\ (supplied.given /\ supplied.value <= 0)
                        => (outcome.raised /\ outcome.err.type = "ConfigurationError")
                  /\ (supplied.given /\ ~outcome.raised)
                        => config[setting] = supplied.value

\* a negative value was supplied and the construction failed with the
\* configuration error that names the setting
C23_Witness ==
    /\ outcome.call = "__init__"
    /\ outcome.args.precision = Given(-1)
    /\ outcome.args.max_history_size = Given(1)
    /\ outcome.raised
    /\ outcome.err = ConfigurationError(<<"precision", "must", "be", "positive">>).err

\* the load of the history file as it is found fails
LoadFails(file) == ~load_file(file, TRUE).ok

\* C24: a failure of the history load during the construction of the
\* Calculator never aborts the construction: the constructor returns, logs a
\* warning, the history and both stacks are empty, and the session accepts
\* commands: the operation selected next is installed and the first valid
\* operation performed is recorded.
C24_LoadFailureDoesNotAbortConstruction ==
    [][ (outcome.call = "__init__" /\ LoadFails(history_file))
        => /\ ~outcome.raised /\ warnings >= 1
           /\ H = <<>> /\ undo_stack = <<>> /\ redo_stack = <<>>
           /\ outcome'.call = "set_operation"
                => (~outcome'.raised /\ operation_strategy' # "None") ]_vars

\* the calculator was constructed on a damaged history file and has taken
\* its first command
C24_Witness ==
    /\ LoadFails(history_file)
    /\ recent = <<Call("__init__", TRUE), Call("set_operation", TRUE)>>
    /\ H = <<>>

(***************************************************************************)
(* The Caretaker on its own: mementos are saved, undone and redone, the    *)
(* current state is read, the stacks are cleared, and save_state() is      *)
(* handed an object that is no memento.                                    *)
(***************************************************************************)
MaxCareDepth == 3

\* the mementos handed to save_state(): histories of zero, one and two entries
CareMementos ==
    {CalculatorMemento(h, Now) : h \in {<<>>, <<"add">>, <<"add", "sub">>}}

NextCare ==
    \/ /\ Len(caretaker.undo_stack) + Len(caretaker.redo_stack) < MaxCareDepth
       /\ \E memento \in CareMementos : Caretaker_called(save_state(caretaker, memento))
    \/ Caretaker_called(save_state(caretaker, NotAMemento))
    \/ Caretaker_called(Caretaker_undo(caretaker))
    \/ Caretaker_called(Caretaker_redo(caretaker))
    \/ Caretaker_called(current_state(caretaker))
    \/ Caretaker_called(Caretaker_clear(caretaker))
    \/ Caretaker_called(can_undo(caretaker))
    \/ Caretaker_called(can_redo(caretaker))

SpecCare == Init /\ [][NextCare]_vars

\* a fresh copy of memento, in the hands of the caller
CopyOf(memento) == <<deepcopy(memento, 0)>>

\* C25: the stack contract of the Caretaker. With a non-empty undo stack
\* undo() moves the top memento to the redo stack and returns a copy of the
\* new top of the undo stack, None when the undo stack became empty; with a
\* non-empty redo stack redo() moves the top memento of the redo stack back
\* onto the undo stack and returns a copy of it. Hence a redo() that follows
\* an undo() leaves both stacks as they were before the undo() and returns
\* the memento that was on top then.
C25_CaretakerStackContract ==
    [][ LET r == caretaker_result'
            u == caretaker.undo_stack
            d == caretaker.redo_stack
        IN  /\ (r.call = "undo" /\ u # <<>>)
                => /\ ~r.raised
                   /\ caretaker'.undo_stack = Front(u)
                   /\ caretaker'.redo_stack = Append(d, Last(u))
                   /\ r.ret = IF Front(u) = <<>> THEN <<>> ELSE CopyOf(Last(Front(u)))
            /\ (r.call = "redo" /\ d # <<>>)
                => /\ ~r.raised
                   /\ caretaker'.redo_stack = Front(d)
                   /\ caretaker'.undo_stack = Append(u, Last(d))
                   /\ r.ret = CopyOf(Last(d))
            /\ (r.call = "redo" /\ caretaker_result.call = "undo"
                    /\ ~caretaker_result.raised)
                => /\ caretaker' = caretaker_result.before
                   /\ r.ret = CopyOf(Last(caretaker_result.before.undo_stack)) ]_vars

\* a redo() onto an emptied undo stack, with more left to redo, returned a
\* copy of the memento it restored
C25_Witness ==
    /\ caretaker_result.call = "redo" /\ ~caretaker_result.raised
    /\ caretaker_result.before.undo_stack = <<>>
    /\ Len(caretaker_result.before.redo_stack) >= 2
    /\ Len(caretaker.undo_stack) = 1
    /\ caretaker_result.ret = CopyOf(Last(caretaker.undo_stack))

\* C26: the error cases of the Caretaker change nothing: undo() on an empty
\* undo stack, redo() on an empty redo stack and save_state() with an
\* argument that is no CalculatorMemento raise HistoryError and leave both
\* stacks as they were; a rejected save_state() does not clear the redo stack.
C26_CaretakerErrorsChangeNothing ==
    [][ LET r == caretaker_result'
        IN  /\ (r.call = "undo" /\ caretaker.undo_stack = <<>>)
                => (r.raised /\ r.err.type = "HistoryError" /\ caretaker' = caretaker)
            /\ (r.call = "redo" /\ caretaker.redo_stack = <<>>)
                => (r.raised /\ r.err.type = "HistoryError" /\ caretaker' = caretaker)
            /\ (r.call = "save_state" /\ r.raised)
                => (r.err = HistoryError(<<"Invalid", "memento", "type", ".">>)
                    /\ caretaker' = caretaker)
            /\ r.raised => caretaker' = caretaker ]_vars

\* save_state() was rejected while mementos stood on the redo stack
C26_Witness ==
    /\ caretaker_result.call = "save_state" /\ caretaker_result.raised
    /\ caretaker.redo_stack # <<>>
    /\ caretaker = caretaker_result.before

(***************************************************************************)
(* The strategies on their own: execute(a, b) is called on an instance of  *)
(* every built-in operation class with whole operands of either sign.      *)
(***************************************************************************)
MaxFormulaValue == 3

\* a direct call of operation.execute(a, b) on an instance of cls; r is what
\* the call returns or raises
Operation_executed(cls, a, b, r) ==
    /\ Recorded(Outcome("execute", [name |-> "", cls |-> cls, a |-> RawNum(a.n),
                                    b |-> RawNum(b.n)],
                        ~r.ok, r.err, r.val, "None"),
                NoCalc, Quiet, performed)
    /\ UNCHANGED <<heap, history, undo_stack, redo_stack, operation_strategy,
                   observers, config, operations, history_file>>

Operation_execute(cls, a, b) == Operation_executed(cls, a, b, execute(cls, a, b))

FormulaOperands == (-MaxFormulaValue)..MaxFormulaValue

NextFormula ==
    \E cls \in OperationClasses, a \in FormulaOperands, b \in FormulaOperands :
        Operation_execute(cls, DInt(a), DInt(b))

SpecFormula == Init /\ [][NextFormula]_vars

\* the whole number q with q <= a/b < q + 1 (b # 0)
Floor(a, b) ==
    CHOOSE q \in (-Abs(a))..Abs(a) :
        q * Abs(b) <= Sign(b) * a /\ Sign(b) * a < (q + 1) * Abs(b)

\* the whole quotient of a by b rounded toward zero (b # 0)
Trunc(a, b) == Sign(a) * Sign(b) * Floor(Abs(a), Abs(b))

\* the operands pass the validation of the operation
PassesValidation(cls, a, b) ==
    CASE cls \in {"Division", "Modulus", "IntegerDivision", "Percentage"} -> b # 0
      [] cls = "Root" -> b # 0 /\ ~(a < 0 /\ b % 2 = 0)
      [] OTHER -> TRUE

\* the last call was execute(a, b): its result is that of every call with
\* these operands, and is the formula of the operation, the modulus being
\* mod(a, b)
EqualsFormula(mod(_, _)) ==
    outcome.call = "execute"
    => LET cls == outcome.args.cls
           a == outcome.args.a.n
           b == outcome.args.b.n
           exact == ~outcome.raised /\ outcome.val.k = "exact"
       IN  /\ outcome.val = execute(cls, DInt(a), DInt(b)).val
           /\ outcome.err = execute(cls, DInt(a), DInt(b)).err
           /\ cls = "Addition" => (exact /\ outcome.val = DInt(a + b))
           /\ cls = "Subtraction" => (exact /\ outcome.val = DInt(a - b))
           /\ cls = "Multiplication" => (exact /\ outcome.val = DInt(a * b))
           /\ cls = "AbsoluteDifference"
                => (exact /\ outcome.val = DInt(IF a >= b THEN a - b ELSE b - a))
           /\ (cls = "Modulus" /\ PassesValidation(cls, a, b))
                => (exact /\ outcome.val = DInt(mod(a, b)))
           /\ (cls = "IntegerDivision" /\ PassesValidation(cls, a, b))
                => (exact /\ outcome.val = DInt(Floor(a, b)))
           /\ (cls = "Division" /\ PassesValidation(cls, a, b))
                => (~outcome.raised
                    /\ (exact => outcome.val.n * b = a * outcome.val.d))
           /\ (cls = "Percentage" /\ PassesValidation(cls, a, b))
                => (~outcome.raised
                    /\ (exact => outcome.val.n * b = 100 * a * outcome.val.d))
           /\ (cls = "Power" /\ exact)
                => IF b >= 0 THEN outcome.val = DInt(IPow(a, b))
                   ELSE outcome.val.n * IPow(a, -b) = outcome.val.d

\* C27 as it stands: for every built-in operation and every pair of bounded
\* whole operands that passes its validation, execute(a, b) equals the
\* documented formula: add a+b, subtract a-b, multiply a*b, abs_diff |a-b|,
\* modulus a mod b (the residue of a modulo b, a - b*floor(a/b)), int_divide
\* floor(a/b), and, where the quotient or power is exact, divide a/b, percent
\* (a/b)*100 and power a^b.
C27_ExecuteEqualsFormula == EqualsFormula(LAMBDA a, b : a - b * Floor(a, b))

\* C27, amended: as above, with modulus the remainder of a by b that takes the
\* sign of a, a - b*trunc(a/b), which is what Decimal's % gives.
C27_ExecuteEqualsFormulaSignOfDividend == EqualsFormula(LAMBDA a, b : a - b * Trunc(a, b))

\* a modulus of a negative by a positive operand returned a negative remainder
C27_Witness ==
    /\ outcome.call = "execute" /\ outcome.args.cls = "Modulus"
    /\ outcome.args.a.n < 0 /\ outcome.args.b.n > 1
    /\ ~outcome.raised /\ outcome.val.n < 0

\* the call that has just returned left on top of the undo stack a memento of
\* the history it found, and the undo() that follows reverts it
SnapshotTaken(call) ==
    /\ (outcome'.call = call /\ ~outcome'.raised)
        => /\ Len(undo_stack') = Len(undo_stack) + 1
           /\ heap'[Last(undo_stack')] = H
           /\ Last(undo_stack') # history'
    /\ (outcome.call = call /\ ~outcome.raised /\ outcome'.call = "undo")
        => (outcome'.ret = "True" /\ H' = h_before)

\* C28 as it stands: a snapshot of the pre-mutation history is pushed onto the
\* undo stack before every operation that mutates the history, before each
\* append after a successful operation and before each clear, so that every
\* such mutation can be reverted by undo().
C28_SnapshotBeforeEveryMutation ==
    [][SnapshotTaken("perform_operation") /\ SnapshotTaken("clear_history")]_vars

\* C28, amended: the snapshot is pushed before each append after a successful
\* operation, so that every such append can be reverted by undo();
\* clear_history() pushes none.
C28_SnapshotBeforeEveryAppend ==
    [][ /\ SnapshotTaken("perform_operation")
        /\ outcome'.call = "clear_history" => undo_stack' = <<>> ]_vars

\* an append that evicted the oldest record has been reverted by undo()
C28_Witness ==
    /\ recent = <<Call("perform_operation", TRUE), Call("undo", TRUE)>>
    /\ Len(H) = config.max_history_size
    /\ Len(undo_stack) >= 1

(***************************************************************************)
(* The session with observers and every call that changes the history:     *)
(* observers are registered, also twice, and unregistered, operations      *)
(* succeed and fail, and the history is undone, redone, cleared and        *)
(* loaded.                                                                 *)
(***************************************************************************)
MaxObservers == 2

NextNotify ==
    \/ set_operation("add")
    \/ /\ Len(undo_stack) + Len(redo_stack) < MaxIODepth
       /\ \E io_ok \in BOOLEAN : perform_operation(RawNum(2), RawNum(2), io_ok)
    \/ perform_operation(RawNum(2), RawJunk, TRUE)
    \/ undo
    \/ redo
    \/ clear_history
    \/ \E io_ok \in BOOLEAN : load_history(io_ok)
    \/ /\ Len(observers) < MaxObservers
       /\ \E observer \in ObserverKinds : add_observer(observer)
    \/ \E observer \in ObserverKinds : remove_observer(observer)

SpecNotify == InitObs /\ [][NextNotify]_vars

DefaultObservers == <<"LoggingObserver", "AutoSaveObserver">>

\* C30: a newly constructed Calculator has two observers registered, a
\* LoggingObserver and an AutoSaveObserver, so that with auto_save enabled
\* every successful operation is followed by a save of the history without
\* an explicit save command, and with auto_save disabled the notification
\* saves nothing.
C30_ConstructedWithObservers ==
    [][ /\ outcome.call = "__init__" => observers = DefaultObservers
        /\ (outcome'.call = "perform_operation" /\ ~outcome'.raised)
            => history_file' = IF config.auto_save
                               THEN save_file(history_file, H', TRUE)
                               ELSE history_file ]_vars


\* a number prompt of the running command was answered with cancel
CancelTyped(r) ==
    /\ r.command \in CommandNames
    /\ \E i \in 1..Len(r.typed) : lower_strip(r.typed[i]) = "cancel"

\* C31: cancelling input collection is a no-op for the core: when cancel is
\* typed at the first or at the second number prompt of an arithmetic
\* command, the command makes no call on the Calculator: the selected
\* operation, the history, the undo stack and the redo stack stay as they
\* were, "Operation cancelled." is printed, _perform_command returns True and
\* the loop prompts again.
C31_CancelIsNoOp ==
    [][ CancelTyped(repl')
        => /\ repl'.pc = "prompt"
           /\ repl'.returned = "True"
           /\ repl'.printed = Cancelled
           /\ outcome' = outcome
           /\ UNCHANGED <<operation_strategy, heap, history, undo_stack, redo_stack>> ]_vars

\* cancel was typed at the second prompt, after a number, in a session with
\* an operation selected, a record in the history and a snapshot to undo
C31_Witness ==
    /\ CancelTyped(repl)
    /\ Len(repl.typed) = 2
    /\ ~cancels(repl.typed[1])
    /\ repl.pc = "prompt"
    /\ operation_strategy # "None"
    /\ H # <<>>
    /\ undo_stack # <<>>



\* C32: can_undo() returns True exactly when undo is possible: in the states
\* where a call of Caretaker.undo() returns instead of raising HistoryError.
C32_CanUndoIffUndoSucceeds ==
    caretaker_result.call = "can_undo"
        => (caretaker_result.flag = "True" <=> ~Caretaker_undo(caretaker).result.raised)

\* can_undo() has answered False with one memento on the undo stack
C32_Witness ==
    /\ caretaker_result.call = "can_undo"
    /\ caretaker_result.flag = "False"
    /\ Len(caretaker.undo_stack) = 1


(***************************************************************************)
(* The Calculator with a Caretaker run beside it: every successful         *)
(* perform_operation(), undo(), redo() and clear_history() of the          *)
(* Calculator is repeated on the Caretaker (Beside).                       *)
(***************************************************************************)
InitSide ==
    /\ Constructed(NoFile, DefaultConfig) /\ History_init /\ repl = NoRepl
    /\ caretaker = [undo_stack |-> <<>>, redo_stack |-> <<>>, beside |-> TRUE]
    /\ caretaker_result = CaretakerResult("__init__", NoError, <<>>)

NextSide ==
    \/ \E name \in SessionNames : set_operation(name)
    \/ /\ Len(undo_stack) + Len(redo_stack) < MaxUndoDepth
       /\ \E a \in {RawNum(2)}, b \in SessionOperands : perform_operation(a, b, TRUE)
    \/ undo
    \/ redo
    \/ clear_history

SpecSide == InitSide /\ [][NextSide]_vars

\* the record sequence of the memento a Caretaker call returned: empty for None
Returned(result) == IF result.ret = <<>> THEN <<>> ELSE result.ret[1].history

\* C33 (as claimed): undo() and redo() of the Calculator behave as a
\* delegation to the Caretaker run beside it: the Calculator returns False
\* exactly when the Caretaker raises, and otherwise the history the
\* Calculator installs is the record sequence of the memento the Caretaker
\* returns, the empty sequence when it returns None.
C33_UndoRedoDelegate ==
    (caretaker.beside /\ outcome.call \in {"undo", "redo"})
        => /\ caretaker_result.call = outcome.call
           /\ outcome.ret = "False" <=> caretaker_result.raised
           /\ outcome.ret = "True" => H = Returned(caretaker_result)

\* C33 (amended): the Calculator returns False exactly when the Caretaker
\* run beside it raises, but it installs a different snapshot: after a
\* successful undo() the history of the Calculator is the record sequence of
\* the memento the Caretaker moved to its redo stack, and the memento a
\* successful redo() of the Caretaker returns holds the history the
\* Calculator had before its redo().
C33_UndoRedoOneSnapshotApart ==
    (caretaker.beside /\ outcome.call \in {"undo", "redo"})
        => /\ caretaker_result.call = outcome.call
           /\ outcome.ret = "False" <=> caretaker_result.raised
           /\ (outcome.call = "undo" /\ outcome.ret = "True")
                => H = Last(caretaker.redo_stack).history
           /\ (outcome.call = "redo" /\ outcome.ret = "True")
                => Returned(caretaker_result) = h_before

\* an undo() after two operations: the Calculator holds the history of one
\* record, the memento the Caretaker returned holds the empty history
C33_Witness ==
    /\ caretaker.beside
    /\ outcome.call = "undo" /\ outcome.ret = "True"
    /\ Len(H) = 1
    /\ caretaker_result.ret # <<>>
    /\ Returned(caretaker_result) = <<>>


(***************************************************************************)
(* A session with calls that fail: names the factory does not know,        *)
(* operands that are no numbers or out of range, divisors of zero, and an  *)
(* operation Calculation cannot compute.                                   *)
(***************************************************************************)
FailNames == {"add", "divide", "modulus", "bogus"}

FailFirst == {RawNum(2), RawJunk}

FailSecond == {RawNum(2), RawNum(0), RawNum(MaxInputValue + 1)}

NextFail ==
    \/ \E name \in FailNames : set_operation(name)
    \/ \E a \in FailFirst, b \in FailSecond :
          /\ IF operation_strategy = "None" THEN TRUE
             ELSE \/ Len(undo_stack) + Len(redo_stack) < MaxUndoDepth
                  \/ ~try_operation(operation_strategy, a, b, config).ok
          /\ perform_operation(a, b, TRUE)
    \/ undo
    \/ redo
    \/ clear_history

SpecFail == Init /\ [][NextFail]_vars

\* C34: a perform_operation that raises, for whatever reason (no operation
\* selected, an operand that is no number or out of range, the rejection by
\* the operation, a Calculation that cannot be built), leaves the history,
\* the undo stack and the redo stack exactly as they were: no snapshot is
\* pushed and the redo stack is not cleared.
C34_FailedOperationChangesNothing ==
    [][ (outcome'.call = "perform_operation" /\ outcome'.raised)
        => UNCHANGED <<heap, history, undo_stack, redo_stack>> ]_vars

\* an operation failed while its Calculation was built, after an undo: there
\* is a record in the history and a memento on either stack
C34_Witness ==
    /\ outcome.call = "perform_operation" /\ outcome.raised
    /\ operation_strategy = "Modulus"
    /\ validate_number(outcome.args.a, config).ok
    /\ validate_number(outcome.args.b, config).ok
    /\ outcome.args.b.n # 0
    /\ H # <<>>
    /\ undo_stack # <<>>
    /\ redo_stack # <<>>


(***************************************************************************)
(* Sequences of undo() and redo() as functions of the session state: the   *)
(* heap, the live history and the two stacks.                              *)
(***************************************************************************)
Session(hp, hist, us, rs) ==
    [heap |-> hp, history |-> hist, undo_stack |-> us, redo_stack |-> rs]

\* the session after Calculator.undo()
undone(s) ==
    IF s.undo_stack = <<>> THEN s
    ELSE LET w == swap_state(s.heap, s.history, s.undo_stack, s.redo_stack)
         IN  Session(w.heap, w.history, w.src, w.dst)

\* the session after Calculator.redo()
redone(s) ==
    IF s.redo_stack = <<>> THEN s
    ELSE LET w == swap_state(s.heap, s.history, s.redo_stack, s.undo_stack)
         IN  Session(w.heap, w.history, w.dst, w.src)

RECURSIVE UndoTimes(_, _)
UndoTimes(k, s) == IF k = 0 THEN s ELSE UndoTimes(k - 1, undone(s))

RECURSIVE RedoTimes(_, _)
RedoTimes(k, s) == IF k = 0 THEN s ELSE RedoTimes(k - 1, redone(s))

\* what a session holds: the records of the history and of every memento
Contents(s) ==
    [history |-> s.heap[s.history],
     undo_stack |-> [i \in DOMAIN s.undo_stack |-> s.heap[s.undo_stack[i]]],
     redo_stack |-> [i \in DOMAIN s.redo_stack |-> s.heap[s.redo_stack[i]]]]

Current == Session(heap, history, undo_stack, redo_stack)

\* C35: undo() and redo() are mutual inverses on the session state: with k
\* mementos or more on the undo stack, k undos followed by k redos leave the
\* history, the snapshots of the undo stack and the snapshots of the redo
\* stack with the contents they had, and so do k redos followed by k undos
\* with k mementos or more on the redo stack.
C35_UndoRedoInverse ==
    /\ \A k \in 1..Len(undo_stack) :
          Contents(RedoTimes(k, UndoTimes(k, Current))) = Contents(Current)
    /\ \A k \in 1..Len(redo_stack) :
          Contents(UndoTimes(k, RedoTimes(k, Current))) = Contents(Current)

\* a redo() right after an undo(), on a history that was loaded from the
\* file and differs from every snapshot, with mementos left on both stacks
C35_Witness ==
    /\ recent = <<Call("undo", TRUE), Call("redo", TRUE)>>
    /\ undo_stack # <<>>
    /\ redo_stack # <<>>
    /\ \A i \in DOMAIN undo_stack : heap[undo_stack[i]] # H
    /\ Contents(redone(undone(Current))) = Contents(Current)


(***************************************************************************)
(* A session with undo() and redo() over a history file that is loaded     *)
(* again in between: the loaded history differs from every snapshot.       *)
(***************************************************************************)
LoadFiles == {NoFile, [exists |-> TRUE, rows |-> SampleRows(MaxHistorySize)]}

InitLoad ==
    /\ \E file \in LoadFiles : Constructed(file, DefaultConfig)
    /\ History_init /\ Caretaker_init /\ repl = NoRepl

NextLoad ==
    \/ set_operation("add")
    \/ /\ Len(undo_stack) + Len(redo_stack) < MaxUndoDepth
       /\ \E b \in SessionOperands : perform_operation(RawNum(2), b, TRUE)
    \/ undo
    \/ redo
    \/ clear_history
    \/ \E io_ok \in BOOLEAN : load_history(io_ok)

SpecLoad == InitLoad /\ [][NextLoad]_vars


\* the session after the step
CurrentNext == Session(heap', history', undo_stack', redo_stack')

\* the history that is left when every memento of the undo stack has been
\* undone
Base(s) == Contents(UndoTimes(Len(s.undo_stack), s)).history

FileList == load_file(history_file', TRUE)

\* the session after the step, after a load_history() that installs list
LoadedNext(list) == assign_history(heap', undo_stack', redo_stack', list)

\* C37: load_history changes only the live history. A load_history() leaves
\* the contents of the undo stack and of the redo stack as they were (no
\* snapshot is pushed, the redo stack is not cleared). Hence an undo() right
\* after a load returns True whenever it would have before the load and
\* installs the snapshot on top of the undo stack, not the loaded records; a
\* redo() right after a load returns True whenever it would have before; and
\* after a successful perform_operation, a load followed by an undo gives
\* the history as it was before that operation.
C37_LoadLeavesStacks ==
    [][ /\ outcome'.call = "load_history"
              => /\ Contents(CurrentNext).undo_stack = Contents(Current).undo_stack
                 /\ Contents(CurrentNext).redo_stack = Contents(Current).redo_stack
        /\ (outcome.call = "load_history" /\ outcome'.call = "undo")
              => /\ outcome'.ret = (IF depth_before[1] > 0 THEN "True" ELSE "False")
                 /\ outcome'.ret = "True" => H' = heap[Last(undo_stack)]
        /\ (outcome.call = "load_history" /\ outcome'.call = "redo")
              => /\ outcome'.ret = (IF depth_before[2] > 0 THEN "True" ELSE "False")
                 /\ outcome'.ret = "True" => H' = heap[Last(redo_stack)]
        /\ (Succeeded(outcome', "perform_operation") /\ FileList.ok /\ ~FileList.keep)
              => Contents(undone(LoadedNext(FileList.list))).history = H ]_vars

\* an undo() right after a load that installed the records of the file, with
\* a memento to redo before the load: the history is the snapshot that was on
\* top of the undo stack, the loaded records are gone from it, and the redo
\* stack holds the memento it held and one of the loaded history
C37_Witness ==
    /\ recent = <<Call("load_history", TRUE), Call("undo", TRUE)>>
    /\ depth_before = <<2, 1>>
    /\ h_before = load_file(history_file, TRUE).list
    /\ h_before # <<>>
    /\ H # h_before
    /\ Len(redo_stack) = 2
    /\ heap[Last(redo_stack)] = h_before


(***************************************************************************)
(* Every operation on operands of either sign: the value the strategy      *)
(* returns beside the result Calculation computes for the record. Each     *)
(* operation starts from an empty history.                                 *)
(***************************************************************************)
AgreeOperands == {RawNum(i) : i \in (-MaxFormulaValue)..MaxFormulaValue}

NextAgree ==
    \/ \E name \in CommandNames : set_operation(name)
    \/ /\ H = <<>>
       /\ \E a \in AgreeOperands, b \in AgreeOperands : perform_operation(a, b, TRUE)
    \/ clear_history

SpecAgree == Init /\ [][NextAgree]_vars

\* C38: the value a successful perform_operation returns, computed by the
\* execute() of the selected strategy, equals the result field of the record
\* the same call appends to the history, computed by Calculation.calculate.
C38_ReturnEqualsRecordedResult ==
    [][ Succeeded(outcome', "perform_operation")
        => LET a == validate_number(outcome'.args.a, config).val
               b == validate_number(outcome'.args.b, config).val
           IN  /\ H' # <<>>
               /\ Last(H') = created'
               /\ outcome'.val = execute(operation_strategy, a, b).val
               /\ Last(H').result = calculate(operation_strategy, a, b).val
               /\ Last(H').result = outcome'.val ]_vars

\* a division of -2 by 3 has succeeded: the value returned is the result of
\* the last record, and it is not a whole number
C38_Witness ==
    /\ Succeeded(outcome, "perform_operation")
    /\ operation_strategy = "Division"
    /\ outcome.args.a = RawNum(-2) /\ outcome.args.b = RawNum(MaxFormulaValue)
    /\ Last(H).result = outcome.val
    /\ outcome.val.d # 1


\* C39: a set_operation that fails, with OperationError for a name the
\* factory does not know, leaves the selected operation in place, and the
\* perform_operation that follows it executes that operation: it does what
\* the operation selected before does on its operands instead of failing
\* with "No operation set".
C39_FailedSetKeepsOperation ==
    [][ /\ (outcome'.call = "set_operation" /\ outcome'.raised)
              => /\ outcome'.err.type = "OperationError"
                 /\ operation_strategy' = operation_strategy
        /\ ( /\ outcome.call = "set_operation" /\ outcome.raised
             /\ operation_strategy # "None"
             /\ outcome'.call = "perform_operation" )
              => LET t == try_operation(operation_strategy, outcome'.args.a,
                                        outcome'.args.b, config)
                 IN  /\ outcome'.raised = ~t.ok
                     /\ outcome'.err = t.err
                     /\ outcome'.val = t.val
                     /\ ~Mentions(outcome'.err.msg, <<"No", "operation", "set">>)
                     /\ t.ok => created'.operation = operation_strategy ]_vars

\* divide was selected, set_operation("bogus") raised, and the
\* perform_operation after it returned the quotient
C39_Witness ==
    /\ recent = <<Call("set_operation", FALSE), Call("perform_operation", TRUE)>>
    /\ operation_strategy = "Division"
    /\ created.operation = "Division"
    /\ Last(H) = created


\* b * int_divide(a, b) + modulus(a, b), both computed by execute
DivModSum(a, b) ==
    b * execute("IntegerDivision", DInt(a), DInt(b)).val.n
        + execute("Modulus", DInt(a), DInt(b)).val.n

\* the last call was execute(a, b) of Modulus or IntegerDivision with b # 0:
\* it returned what execute gives, and DivModSum(a, b) is total(a, b)
DivModSumIs(total(_, _)) ==
    ( /\ outcome.call = "execute"
      /\ outcome.args.cls \in {"Modulus", "IntegerDivision"}
      /\ outcome.args.b.n # 0 )
    => LET a == outcome.args.a.n
           b == outcome.args.b.n
       IN  /\ ~outcome.raised
           /\ outcome.val = execute(outcome.args.cls, DInt(a), DInt(b)).val
           /\ DivModSum(a, b) = total(a, b)

\* C40 as it stands: integer division and modulus are mutually consistent:
\* for all bounded whole a and b with b # 0, negative values included,
\* b * int_divide(a, b) + modulus(a, b) = a.
C40_DivModConsistent == DivModSumIs(LAMBDA a, b : a)

\* the quotient a/b is whole or positive: b divides a, or a and b have the
\* same sign
SameRounding(a, b) == Abs(a) % Abs(b) = 0 \/ Sign(a) = Sign(b)

\* C40, amended: b * int_divide(a, b) + modulus(a, b) = a when b divides a or
\* a and b have the same sign; for operands of opposite signs that leave a
\* remainder the sum is a - b, because int_divide rounds the quotient down
\* and modulus takes the sign of a.
C40_DivModConsistentSameSign ==
    DivModSumIs(LAMBDA a, b : IF SameRounding(a, b) THEN a ELSE a - b)

\* int_divide(-3, 2) returned -2; with modulus(-3, 2) = -1 the sum is -5
C40_Witness ==
    /\ outcome.call = "execute"
    /\ outcome.args.cls = "IntegerDivision"
    /\ outcome.args.a.n = -MaxFormulaValue /\ outcome.args.b.n = 2
    /\ ~outcome.raised
    /\ outcome.val = DInt(Floor(-MaxFormulaValue, 2))
    /\ DivModSum(-MaxFormulaValue, 2) = -MaxFormulaValue - 2

=============================================================================
